---- MODULE Spec2Model ----
(***************************************************************************)
(* Simulation core of GameOfLife.py: the grid, the transition rule         *)
(* (update_grid / get_neighbors), the statistics, the bounded undo/redo    *)
(* history (save_to_history / undo / redo) and the event handlers that     *)
(* drive them (handle_events / handle_button_click / run).                 *)
(*                                                                         *)
(* The toroidal variant GameOfLife_Gemini.py (step, update, place_pattern, *)
(* load_grid, the speed slider) is modelled beside it, in the variables    *)
(* gemini and gol_save.                                                    *)
(*                                                                         *)
(* A grid is a sequence of rows, each a sequence of 0/1 cells; the cell    *)
(* the code writes grid[r, c] (0-based) is g[r + 1][c + 1] here.           *)
(***************************************************************************)
EXTENDS Integers, Sequences, FiniteSets, TLC

\* GameOfLife.py:18-19 are 100 x 60; the model runs the same code on a small grid.
GRID_WIDTH == 5
GRID_HEIGHT == 3
\* GameOfLife.py:225 is 50; scaled so that the capacity branch is reached.
max_history == 2
\* Cap on stats.generation (unbounded in the code).
MaxGen == 1
\* GameOfLife_Gemini.py:90-91 give a 128 x 90 grid for the 1600 x 900 window; the
\* model runs the same code on a small torus.
grid_width == 6
grid_height == 5
\* Cap on the generation of the toroidal variant (unbounded in the code).
MaxTorusGen == 4

VARIABLES
    pc,               \* "constructed" (after __init__), "running" (inside run()'s loop), "crashed"
    grid,             \* self.grid
    stats,            \* self.stats
    history,          \* self.history
    history_index,    \* self.history_index
    state,            \* self.state
    is_drawing,       \* self.is_drawing
    draw_mode,        \* self.draw_mode
    selected_pattern, \* self.selected_pattern ("None" or a key of PATTERNS)
    file,             \* contents of saved_pattern.json
    last_op,          \* history variable: "action" after the handlers of one recorded user
                      \* action ("action_after_undo" when it followed an undo), "undo" after
                      \* an undo() that moved the cursor ("undo_action" when it followed a
                      \* recorded action), "redo_undo" after a redo() that followed such an
                      \* undo, else "other"
    rec_grid,         \* history variable: the live grid at the last save_to_history() call
    undone,           \* history variable: the live grid the last undo() replaced, else <<>>
    saves,            \* history variable: save_to_history() calls since the last button release
    nrec,             \* history variable: save_to_history() calls so far
    gemini,           \* the GameOfLife object of GameOfLife_Gemini.py: grid, prev_grid,
                      \* is_running, generation, time_since_last_update, the speed
                      \* slider, active_pattern (<<>> for None, else a matrix)
    speed,            \* self.speed
    last_update,      \* self.last_update
    now,              \* the last reading of pygame.time.get_ticks() in run()
    stepped_at,       \* history variable: the clock readings of the last two frames of
                      \* run() that called update_grid(), oldest first, -1 for none
    gol_save,         \* contents of gol_save.json (GameOfLife_Gemini.py)
    alias,            \* the positions of self.history (counted from 0) whose array is
                      \* the very object self.grid refers to
    since_step        \* history variable of GameOfLife_Gemini.py: elapsed, the time
                      \* (milliseconds) the frames took since the last step() call made
                      \* while is_running, -1 when there was none since playback
                      \* started; gap, the value of elapsed at that call

vars == <<pc, grid, stats, history, history_index, state, is_drawing,
          draw_mode, selected_pattern, file, last_op, rec_grid, undone, saves, nrec,
          gemini, speed, last_update, now, stepped_at, gol_save, since_step, alias>>

\* The clock of run() in GameOfLife.py
timing == <<speed, last_update, now, stepped_at>>

Rows == 0 .. GRID_HEIGHT - 1
Cols == 0 .. GRID_WIDTH - 1

\* np.zeros((GRID_HEIGHT, GRID_WIDTH), dtype=int)
zeros == [r \in 1 .. GRID_HEIGHT |-> [c \in 1 .. GRID_WIDTH |-> 0]]

\* Every GRID_HEIGHT x GRID_WIDTH matrix of 0/1.
AllGrids == [1 .. GRID_HEIGHT -> [1 .. GRID_WIDTH -> {0, 1}]]

\* Statistics() (runtime, a wall-clock reading, is left out). numpy names the fields
\* whose value is a numpy int64 (what np.sum returns) and not a Python int.
Statistics == [generation |-> 0, population |-> 0, births |-> 0, deaths |-> 0,
               max_population |-> 0, total_births |-> 0, total_deaths |-> 0,
               numpy |-> {}]

\* The (dr, dc) pairs in the order the two loops of get_neighbors visit them.
Offsets == << <<-1, -1>>, <<-1, 0>>, <<-1, 1>>, <<0, -1>>, <<0, 1>>,
              <<1, -1>>, <<1, 0>>, <<1, 1>> >>

RECURSIVE neighbor_loop(_, _, _, _)
neighbor_loop(g, row, col, i) ==
    IF i > Len(Offsets) THEN 0
    ELSE LET r == row + Offsets[i][1]
             c == col + Offsets[i][2]
         IN  (IF 0 <= r /\ r < GRID_HEIGHT /\ 0 <= c /\ c < GRID_WIDTH
              THEN g[r + 1][c + 1] ELSE 0)
             + neighbor_loop(g, row, col, i + 1)

get_neighbors_wrap(g, row, col) ==
    LET at(i) == g[((row + Offsets[i][1]) % GRID_HEIGHT) + 1][((col + Offsets[i][2]) % GRID_WIDTH) + 1]
    IN  at(1) + at(2) + at(3) + at(4) + at(5) + at(6) + at(7) + at(8)
\* get_neighbors(row, col) on the grid g
get_neighbors(g, row, col) == neighbor_loop(g, row, col, 1)

survives_only3(neighbors) == neighbors = 3
survives_only2(neighbors) == neighbors = 2
\* `if neighbors in [2, 3]` for an alive cell
survives(neighbors) == neighbors \in {2, 3}

born_from_nothing(neighbors) == neighbors \in {0, 3}
\* `if neighbors == 3` for a dead cell
born(neighbors) == neighbors = 3

RECURSIVE update_loop_in_place(_, _, _)
update_loop_in_place(g, k, acc) ==
    IF k = GRID_HEIGHT * GRID_WIDTH THEN [acc EXCEPT !.new_grid = g]
    ELSE LET row == k \div GRID_WIDTH
             col == k % GRID_WIDTH
             neighbors == get_neighbors(g, row, col)
         IN  IF g[row + 1][col + 1] = 1
             THEN IF survives(neighbors)
                  THEN update_loop_in_place(g, k + 1, acc)
                  ELSE update_loop_in_place([g EXCEPT ![row + 1][col + 1] = 0], k + 1,
                                            [acc EXCEPT !.deaths = @ + 1])
             ELSE IF born(neighbors)
                  THEN update_loop_in_place([g EXCEPT ![row + 1][col + 1] = 1], k + 1,
                                            [acc EXCEPT !.births = @ + 1])
                  ELSE update_loop_in_place(g, k + 1, acc)
\* The double loop of update_grid over (row, col) in row-major order; k numbers the
\* cells, acc carries new_grid, births and deaths. Every count is taken on g, the
\* grid before the step.
RECURSIVE update_loop(_, _, _)
update_loop(g, k, acc) ==
    IF k = GRID_HEIGHT * GRID_WIDTH THEN acc
    ELSE LET row == k \div GRID_WIDTH
             col == k % GRID_WIDTH
             neighbors == get_neighbors(g, row, col)
         IN  IF g[row + 1][col + 1] = 1
             THEN IF survives(neighbors)
                  THEN update_loop(g, k + 1, [acc EXCEPT !.new_grid[row + 1][col + 1] = 1])
                  ELSE update_loop(g, k + 1, [acc EXCEPT !.deaths = @ + 1])
             ELSE IF born(neighbors)
                  THEN update_loop(g, k + 1, [acc EXCEPT !.new_grid[row + 1][col + 1] = 1,
                                                         !.births = @ + 1])
                  ELSE update_loop(g, k + 1, acc)

\* g has a cell at every index the loops of update_grid reach: otherwise
\* self.grid[row, col] or self.grid[nr, nc] raises IndexError before anything is
\* assigned
Fits(g) == Len(g) >= GRID_HEIGHT /\ \A r \in 1 .. Len(g) : Len(g[r]) >= GRID_WIDTH

\* new_grid, births and deaths as update_grid has them when its loops end
step_result(g) == update_loop(g, 0, [new_grid |-> zeros, births |-> 0, deaths |-> 0])

\* np.sum(grid)
RECURSIVE sum_cells(_, _)
sum_cells(g, k) ==
    IF k = Len(g) * Len(g[1]) THEN 0
    ELSE g[(k \div Len(g[1])) + 1][(k % Len(g[1])) + 1] + sum_cells(g, k + 1)

np_sum(g) == sum_cells(g, 0)

\* Python's max(a, b): a unless b is greater
max(a, b) == IF b > a THEN b ELSE a

stats_no_total(s, new_grid, births, deaths) ==
    [s EXCEPT !.generation = @ + 1, !.births = births, !.deaths = deaths,
              !.total_births = births, !.total_deaths = deaths,
              !.population = np_sum(new_grid),
              !.max_population = max(@, np_sum(new_grid)),
              !.numpy = @ \cup {"population"}
                        \cup (IF np_sum(new_grid) > s.max_population
                              THEN {"max_population"} ELSE {})]
\* the statistics assignments that end update_grid
update_stats(s, new_grid, births, deaths) ==
    [s EXCEPT !.generation = @ + 1, !.births = births, !.deaths = deaths,
              !.total_births = @ + births, !.total_deaths = @ + deaths,
              !.population = np_sum(new_grid),
              !.max_population = max(@, np_sum(new_grid)),
              !.numpy = @ \cup {"population"}
                        \cup (IF np_sum(new_grid) > s.max_population
                              THEN {"max_population"} ELSE {})]


(***************************************************************************)
(* History: save_to_history / undo / redo                                  *)
(***************************************************************************)

\* lst[i] of a Python list: i counts from 0, a negative i from the end
py_in_range(lst, i) == -Len(lst) <= i /\ i < Len(lst)
py_item(lst, i) == IF i >= 0 THEN lst[i + 1] ELSE lst[Len(lst) + i + 1]

save_no_truncate(hist, idx, g) ==
    LET appended == Append(hist, g)
    IN  IF Len(appended) > max_history
        THEN [history |-> Tail(appended), history_index |-> idx]
        ELSE [history |-> appended, history_index |-> idx + 1]
save_no_evict(hist, idx, g) ==
    LET truncated == IF idx < Len(hist) - 1 THEN SubSeq(hist, 1, idx + 1) ELSE hist
    IN  [history |-> Append(truncated, g), history_index |-> idx + 1]
save_always_advance(hist, idx, g) ==
    LET truncated == IF idx < Len(hist) - 1 THEN SubSeq(hist, 1, idx + 1) ELSE hist
        appended == Append(truncated, g)
    IN  IF Len(appended) > max_history
        THEN [history |-> Tail(appended), history_index |-> idx + 1]
        ELSE [history |-> appended, history_index |-> idx + 1]
save_evict_newest(hist, idx, g) ==
    LET truncated == IF idx < Len(hist) - 1 THEN SubSeq(hist, 1, idx + 1) ELSE hist
        appended == Append(truncated, g)
    IN  IF Len(appended) > max_history
        THEN [history |-> Append(SubSeq(truncated, 1, Len(truncated) - 1), g),
              history_index |-> idx]
        ELSE [history |-> appended, history_index |-> idx + 1]
\* save_to_history(): history and history_index after the call, g the live grid
save_to_history(hist, idx, g) ==
    LET truncated == IF idx < Len(hist) - 1 THEN SubSeq(hist, 1, idx + 1) ELSE hist
        appended == Append(truncated, g)
    IN  IF Len(appended) > max_history
        THEN [history |-> Tail(appended), history_index |-> idx]
        ELSE [history |-> appended, history_index |-> idx + 1]

np_copy_view(holders) == holders
\* ndarray.copy(): the places that hold the array the call returns, given the places
\* that hold the array copied (positions of self.history counted from 0, and -1 for
\* self.grid): none, the array is new
np_copy(holders) == {}

\* alias after save_to_history(): the positions that are left of al, and the position
\* of the appended array if it is the live one
save_alias(hist, idx, al) ==
    LET kept == IF idx < Len(hist) - 1 THEN {pos \in al : pos <= idx} ELSE al
        length == IF idx < Len(hist) - 1 THEN idx + 1 ELSE Len(hist)
        appended == kept \cup (IF -1 \in np_copy(al \cup {-1}) THEN {length} ELSE {})
    IN  IF length + 1 > max_history
        THEN {pos - 1 : pos \in appended \ {0}}
        ELSE appended

\* self.grid[row, col] = value writes into the array: every history entry that is
\* this array shows the write
write_through(hist, al, g) ==
    IF al = {} THEN hist
    ELSE [i \in 1 .. Len(hist) |-> IF i - 1 \in al THEN g ELSE hist[i]]

\* history and alias after toggle_cell or place_pattern returned r
edited(r, hist, idx, al) ==
    LET al2 == IF r.saved = 1 THEN save_alias(hist, idx, al) ELSE al
    IN  [history |-> write_through(r.history, al2, r.grid), alias |-> al2]

undo_from_zero(hist, idx, g) ==
    IF idx >= 0
    THEN IF py_in_range(hist, idx - 1)
         THEN [history_index |-> idx - 1, grid |-> py_item(hist, idx - 1), raised |-> FALSE]
         ELSE [history_index |-> idx - 1, grid |-> g, raised |-> TRUE]
    ELSE [history_index |-> idx, grid |-> g, raised |-> FALSE]
\* undo(): history_index and grid after the call; raised when history[history_index]
\* is an IndexError (history_index is already decremented then)
undo_result(hist, idx, g) ==
    IF idx > 0
    THEN IF py_in_range(hist, idx - 1)
         THEN [history_index |-> idx - 1, grid |-> py_item(hist, idx - 1), raised |-> FALSE]
         ELSE [history_index |-> idx - 1, grid |-> g, raised |-> TRUE]
    ELSE [history_index |-> idx, grid |-> g, raised |-> FALSE]

\* redo(): as undo_result
redo_result(hist, idx, g) ==
    IF idx < Len(hist) - 1
    THEN IF py_in_range(hist, idx + 1)
         THEN [history_index |-> idx + 1, grid |-> py_item(hist, idx + 1), raised |-> FALSE]
         ELSE [history_index |-> idx + 1, grid |-> g, raised |-> TRUE]
    ELSE [history_index |-> idx, grid |-> g, raised |-> FALSE]


(***************************************************************************)
(* Editing: toggle_cell, place_pattern                                     *)
(***************************************************************************)

WINDOW_WIDTH == 1400
WINDOW_HEIGHT == 900
CELL_SIZE == 12
SIDEBAR_WIDTH == 320

\* __init__ centres the grid; panning and window resizing, which only move these
\* offsets, are not modelled.
grid_offset_x == (WINDOW_WIDTH - SIDEBAR_WIDTH - GRID_WIDTH * CELL_SIZE) \div 2
grid_offset_y == (WINDOW_HEIGHT - GRID_HEIGHT * CELL_SIZE) \div 2

\* PATTERNS (the two the model places)
PATTERNS == [Glider  |-> << <<0, 1, 0>>, <<0, 0, 1>>, <<1, 1, 1>> >>,
             Blinker |-> << <<1, 1, 1>> >>]
\* the pattern buttons the model presses
PatternNames == {"Glider"}

toggle_cell_records_every_cell(x, y, g, hist, idx, drawing, mode) ==
    LET grid_x == (x - grid_offset_x) \div CELL_SIZE
        grid_y == (y - grid_offset_y) \div CELL_SIZE
    IN  IF 0 <= grid_x /\ grid_x < GRID_WIDTH /\ 0 <= grid_y /\ grid_y < GRID_HEIGHT
        THEN LET h == save_to_history(hist, idx, g)
             IN  [grid |-> [g EXCEPT ![grid_y + 1][grid_x + 1] = IF mode THEN 1 ELSE 0],
                  history |-> h.history, history_index |-> h.history_index,
                  is_drawing |-> TRUE, saved |-> 1, wrote |-> TRUE]
        ELSE [grid |-> g, history |-> hist, history_index |-> idx,
              is_drawing |-> drawing, saved |-> 0, wrote |-> FALSE]
toggle_cell_flips(x, y, g, hist, idx, drawing, mode) ==
    LET grid_x == (x - grid_offset_x) \div CELL_SIZE
        grid_y == (y - grid_offset_y) \div CELL_SIZE
    IN  IF 0 <= grid_x /\ grid_x < GRID_WIDTH /\ 0 <= grid_y /\ grid_y < GRID_HEIGHT
        THEN LET h == IF ~drawing THEN save_to_history(hist, idx, g)
                      ELSE [history |-> hist, history_index |-> idx]
             IN  [grid |-> [g EXCEPT ![grid_y + 1][grid_x + 1] = 1 - @],
                  history |-> h.history, history_index |-> h.history_index,
                  is_drawing |-> TRUE, saved |-> IF ~drawing THEN 1 ELSE 0, wrote |-> TRUE]
        ELSE [grid |-> g, history |-> hist, history_index |-> idx,
              is_drawing |-> drawing, saved |-> 0, wrote |-> FALSE]
\* toggle_cell(x, y): grid, history, history_index and is_drawing after the call;
\* saved counts its save_to_history() calls, wrote tells whether it wrote a cell
toggle_cell(x, y, g, hist, idx, drawing, mode) ==
    LET grid_x == (x - grid_offset_x) \div CELL_SIZE
        grid_y == (y - grid_offset_y) \div CELL_SIZE
    IN  IF 0 <= grid_x /\ grid_x < GRID_WIDTH /\ 0 <= grid_y /\ grid_y < GRID_HEIGHT
        THEN LET h == IF ~drawing THEN save_to_history(hist, idx, g)
                      ELSE [history |-> hist, history_index |-> idx]
             IN  [grid |-> [g EXCEPT ![grid_y + 1][grid_x + 1] = IF mode THEN 1 ELSE 0],
                  history |-> h.history, history_index |-> h.history_index,
                  is_drawing |-> TRUE, saved |-> IF ~drawing THEN 1 ELSE 0, wrote |-> TRUE]
        ELSE [grid |-> g, history |-> hist, history_index |-> idx,
              is_drawing |-> drawing, saved |-> 0, wrote |-> FALSE]

\* place_loop writing the alive pattern cells only
RECURSIVE place_loop_overlay(_, _, _, _, _)
place_loop_overlay(pattern, grid_x, grid_y, k, g) ==
    IF k = Len(pattern) * Len(pattern[1]) THEN g
    ELSE LET row == k \div Len(pattern[1])
             col == k % Len(pattern[1])
             grid_row == grid_y + row
             grid_col == grid_x + col
         IN  IF /\ 0 <= grid_row /\ grid_row < GRID_HEIGHT /\ 0 <= grid_col /\ grid_col < GRID_WIDTH
                /\ pattern[row + 1][col + 1] = 1
             THEN place_loop_overlay(pattern, grid_x, grid_y, k + 1,
                                     [g EXCEPT ![grid_row + 1][grid_col + 1] = 1])
             ELSE place_loop_overlay(pattern, grid_x, grid_y, k + 1, g)

\* The double loop of place_pattern over the pattern's cells in row-major order
RECURSIVE place_loop(_, _, _, _, _)
place_loop(pattern, grid_x, grid_y, k, g) ==
    IF k = Len(pattern) * Len(pattern[1]) THEN g
    ELSE LET row == k \div Len(pattern[1])
             col == k % Len(pattern[1])
             grid_row == grid_y + row
             grid_col == grid_x + col
         IN  IF 0 <= grid_row /\ grid_row < GRID_HEIGHT /\ 0 <= grid_col /\ grid_col < GRID_WIDTH
             THEN place_loop(pattern, grid_x, grid_y, k + 1,
                             [g EXCEPT ![grid_row + 1][grid_col + 1] = pattern[row + 1][col + 1]])
             ELSE place_loop(pattern, grid_x, grid_y, k + 1, g)

\* place_pattern(pattern, x, y): as toggle_cell
place_pattern(pattern, x, y, g, hist, idx) ==
    LET grid_x == (x - grid_offset_x) \div CELL_SIZE
        grid_y == (y - grid_offset_y) \div CELL_SIZE
    IN  IF 0 <= grid_x /\ grid_x < GRID_WIDTH /\ 0 <= grid_y /\ grid_y < GRID_HEIGHT
        THEN LET h == save_to_history(hist, idx, g)
             IN  [grid |-> place_loop(pattern, grid_x, grid_y, 0, g),
                  history |-> h.history, history_index |-> h.history_index, saved |-> 1]
        ELSE [grid |-> g, history |-> hist, history_index |-> idx, saved |-> 0]

(***************************************************************************)
(* Persistence: save_pattern, load_pattern                                 *)
(***************************************************************************)

Missing == [kind |-> "missing", data |-> <<>>]
Unparsable == [kind |-> "unparsable", data |-> <<>>]
\* a file open() refuses to read (PermissionError, IsADirectoryError)
Unreadable == [kind |-> "unreadable", data |-> <<>>]

\* What save_pattern leaves in the file. json.dump refuses a numpy int64, and it
\* raises only after open(filename, 'w') has emptied the file and the first part of
\* the text is written: what is left does not parse.
saved_file(g, s) ==
    IF {"population", "max_population"} \cap s.numpy # {}
    THEN Unparsable
    ELSE [kind |-> "object",
          data |-> [grid |-> g,
                    stats |-> [generation |-> s.generation, population |-> s.population,
                               max_population |-> s.max_population,
                               total_births |-> s.total_births,
                               total_deaths |-> s.total_deaths]]]

\* stats_data.get(key, 0)
dict_get(d, key) == IF key \in DOMAIN d THEN d[key] ELSE 0

\* A JSON value that is not an object (a number): it has no get()
NotADict == [json |-> "number"]

\* the five assignments of load_pattern under `if "stats" in data`; the first
\* stats_data.get raises when stats_data is not a dict
load_stats(s, stats_data) ==
    IF stats_data = NotADict THEN s ELSE
    [s EXCEPT !.generation = dict_get(stats_data, "generation"),
              !.population = dict_get(stats_data, "population"),
              !.max_population = dict_get(stats_data, "max_population"),
              !.total_births = dict_get(stats_data, "total_births"),
              !.total_deaths = dict_get(stats_data, "total_deaths"),
              !.numpy = {}]

\* load_pattern(): open() or json.load raising leaves everything as it was; after
\* them save_to_history() runs, then data["grid"] (a KeyError ends the call there),
\* then the statistics
load_pattern(f, g, s, hist, idx) ==
    IF f.kind # "object"
    THEN [grid |-> g, stats |-> s, history |-> hist, history_index |-> idx, saved |-> 0]
    ELSE LET h == save_to_history(hist, idx, g)
         IN  IF "grid" \notin DOMAIN f.data
             THEN [grid |-> g, stats |-> s,
                   history |-> h.history, history_index |-> h.history_index, saved |-> 1]
             ELSE [grid |-> f.data.grid,
                   stats |-> IF "stats" \in DOMAIN f.data
                             THEN load_stats(s, f.data.stats) ELSE s,
                   history |-> h.history, history_index |-> h.history_index, saved |-> 1]

(***************************************************************************)
(* GameOfLife_Gemini.py: the toroidal step                                 *)
(***************************************************************************)

\* np.zeros((self.grid_height, self.grid_width), dtype=np.uint8)
torus_zeros == [r \in 1 .. grid_height |-> [c \in 1 .. grid_width |-> 0]]

\* Slider(SCREEN_WIDTH - PANEL_WIDTH + 20, 120, 280, 1, 60, ...) of setup_ui: the width of
\* self.sliders['speed'] in pixels, and its min_val and max_val
SliderWidth == 280
min_val == 1
max_val == 60
updates_per_second == 10

\* The fields __init__ sets (the view, the drawing state and the widgets other than
\* the speed slider are left out). slider.value is kept in units of 1 / SliderWidth:
\* every value a drag computes is a whole number of them.
GeminiInit ==
    [grid |-> torus_zeros, prev_grid |-> torus_zeros, is_running |-> FALSE,
     generation |-> 0, time_since_last_update |-> 0,
     slider |-> [value |-> updates_per_second * SliderWidth, is_dragging |-> FALSE],
     active_pattern |-> <<>>]

\* PATTERNS (the one the model places)
PATTERNS_Gemini == [Glider |-> << <<0, 1, 0>>, <<0, 0, 1>>, <<1, 1, 1>> >>]

kernel_with_centre == << <<1, 1, 1>>, <<1, 1, 1>>, <<1, 1, 1>> >>
\* kernel of step()
kernel == << <<1, 1, 1>>, <<1, 0, 1>>, <<1, 1, 1>> >>

boundary_fill(in1, r, c) ==
    IF 0 <= r /\ r < Len(in1) /\ 0 <= c /\ c < Len(in1[1]) THEN in1[r + 1][c + 1] ELSE 0
\* boundary='wrap': the input read at (r, c), 0-based, any integers: circular
boundary_wrap(in1, r, c) == in1[(r % Len(in1)) + 1][(c % Len(in1[1])) + 1]

\* One entry of the full convolution, sum over (a, b) of in2[a, b] * in1[m - a, n - b];
\* k numbers the entries of in2 in row-major order
RECURSIVE convolve_sum(_, _, _, _, _)
convolve_sum(in1, in2, m, n, k) ==
    IF k = Len(in2) * Len(in2[1]) THEN 0
    ELSE LET a == k \div Len(in2[1])
             b == k % Len(in2[1])
         IN  in2[a + 1][b + 1] * boundary_wrap(in1, m - a, n - b)
             + convolve_sum(in1, in2, m, n, k + 1)

\* scipy.signal.convolve2d(in1, in2, mode='same', boundary='wrap'): the centre part,
\* of the shape of in1, of the full convolution
convolve2d(in1, in2) ==
    [r \in 1 .. Len(in1) |->
       [c \in 1 .. Len(in1[1]) |->
          convolve_sum(in1, in2, (r - 1) + (Len(in2) - 1) \div 2,
                       (c - 1) + (Len(in2[1]) - 1) \div 2, 0)]]

\* born = (self.grid == 0) & (neighbor_count == 3)
step_born(g, neighbor_count) ==
    [r \in 1 .. Len(g) |-> [c \in 1 .. Len(g[1]) |->
        g[r][c] = 0 /\ neighbor_count[r][c] = 3]]

\* survives = (self.grid == 1) & ((neighbor_count == 2) | (neighbor_count == 3))
step_survives(g, neighbor_count) ==
    [r \in 1 .. Len(g) |-> [c \in 1 .. Len(g[1]) |->
        g[r][c] = 1 /\ (neighbor_count[r][c] = 2 \/ neighbor_count[r][c] = 3)]]

\* (born | survives).astype(np.uint8)
astype_uint8(b1, b2) ==
    [r \in 1 .. Len(b1) |-> [c \in 1 .. Len(b1[1]) |->
        IF b1[r][c] \/ b2[r][c] THEN 1 ELSE 0]]

\* self.grid after step()
step_grid(g) ==
    LET neighbor_count == convolve2d(g, kernel)
    IN  astype_uint8(step_born(g, neighbor_count), step_survives(g, neighbor_count))

(***************************************************************************)
(* GameOfLife_Gemini.py: place_pattern                                     *)
(***************************************************************************)

SCREEN_WIDTH == 1600
PANEL_WIDTH == 320
\* self.zoom as __init__ leaves it (cell_size; zooming and panning are not modelled,
\* so offset_x and offset_y stay 0)
zoom == 10
offset_x == 0
offset_y == 0

\* int(n / d) of Python: the quotient cut towards zero
int_div(n, d) == IF n >= 0 THEN n \div d ELSE -((-n) \div d)

\* screen_to_world(sx, sy): <<world_x, world_y>>
screen_to_world(sx, sy) == <<int_div(sx - offset_x, zoom), int_div(sy - offset_y, zoom)>>

min(a, b) == IF b < a THEN b ELSE a

\* dst[y_min:y_max, x_min:x_max] = src[pat_y_min:pat_y_max, pat_x_min:pat_x_max] for
\* slices of equal shape with bounds inside both arrays
slice_assign(dst, y_min, y_max, x_min, x_max, src, pat_y_min, pat_x_min) ==
    [r \in 1 .. Len(dst) |->
       [c \in 1 .. Len(dst[1]) |->
          IF y_min < r /\ r <= y_max /\ x_min < c /\ c <= x_max
          THEN src[pat_y_min + (r - y_min)][pat_x_min + (c - x_min)]
          ELSE dst[r][c]]]

\* self.grid after place_pattern(mouse_pos) with an active pattern
place_pattern_gemini(g, active_pattern, mouse_pos) ==
    LET world == screen_to_world(mouse_pos[1], mouse_pos[2])
        h == Len(active_pattern)
        w == Len(active_pattern[1])
        grid_x == world[1] - w \div 2
        grid_y == world[2] - h \div 2
        y_min == max(0, grid_y)
        y_max == min(grid_height, grid_y + h)
        x_min == max(0, grid_x)
        x_max == min(grid_width, grid_x + w)
        pat_y_min == max(0, -grid_y)
        pat_x_min == max(0, -grid_x)
    IN  IF y_max > y_min /\ x_max > x_min
        THEN slice_assign(g, y_min, y_max, x_min, x_max, active_pattern, pat_y_min, pat_x_min)
        ELSE g

(***************************************************************************)
(* GameOfLife_Gemini.py: save_grid, load_grid                              *)
(***************************************************************************)

\* What save_grid leaves in gol_save.json
saved_grid(gem) == [kind |-> "object", data |-> [grid |-> gem.grid, generation |-> gem.generation]]

\* new_grid[:h, :w] = loaded_grid[:h, :w] on new_grid = np.zeros_like(self.grid), a
\* uint8 array
resize_no_clip(g, loaded_grid) ==
    [r \in 1 .. Len(loaded_grid) |-> [c \in 1 .. Len(loaded_grid[1]) |-> loaded_grid[r][c] % 256]]
resize(g, loaded_grid) ==
    LET h == min(Len(loaded_grid), grid_height)
        w == min(Len(loaded_grid[1]), grid_width)
    IN  [r \in 1 .. Len(g) |->
           [c \in 1 .. Len(g[1]) |->
              IF r <= h /\ c <= w THEN loaded_grid[r][c] % 256 ELSE 0]]

load_grid_forgets(f, gem) ==
    IF f.kind # "object" THEN [gem EXCEPT !.generation = 0]
    ELSE IF "grid" \notin DOMAIN f.data THEN gem
    ELSE IF Len(f.data.grid) = 0 THEN gem
    ELSE LET loaded_grid == f.data.grid
             new_grid == IF <<Len(loaded_grid), Len(loaded_grid[1])>> # <<grid_height, grid_width>>
                         THEN resize(gem.grid, loaded_grid)
                         ELSE loaded_grid
         IN  [gem EXCEPT !.grid = new_grid,
                         !.generation = dict_get(f.data, "generation"),
                         !.prev_grid = new_grid]
\* load_grid(): the object after the call. open() or json.load raising, a missing
\* 'grid' and a 'grid' without a second dimension (loaded_grid.shape[1]) all end the
\* call before its first assignment.
load_grid(f, gem) ==
    IF f.kind # "object" THEN gem
    ELSE IF "grid" \notin DOMAIN f.data THEN gem
    ELSE IF Len(f.data.grid) = 0 THEN gem
    ELSE LET loaded_grid == f.data.grid
             new_grid == IF <<Len(loaded_grid), Len(loaded_grid[1])>> # <<grid_height, grid_width>>
                         THEN resize(gem.grid, loaded_grid)
                         ELSE loaded_grid
         IN  [gem EXCEPT !.grid = new_grid,
                         !.generation = dict_get(f.data, "generation"),
                         !.prev_grid = new_grid]

(***************************************************************************)
(* The session: __init__, run() and the handlers of handle_events          *)
(***************************************************************************)

\* save_to_history() calls Spec allows in one run: the one of run() and as many as
\* take the history past its capacity.
MaxSaves == max_history + 1

\* A pixel inside cell (row, col)
cell_px(row, col) == <<grid_offset_x + col * CELL_SIZE + 5, grid_offset_y + row * CELL_SIZE + 5>>

\* event.pos of the mouse events: two cells, a point left of the grid and a point
\* of the sidebar
MousePositions ==
    {cell_px(0, 0), cell_px(1, 1),
     <<grid_offset_x - 1, grid_offset_y + 5>>,
     <<WINDOW_WIDTH - SIDEBAR_WIDTH, grid_offset_y + 5>>}

\* Outcomes of np.random.choice in fill_random
RandomGrids ==
    {[r \in 1 .. GRID_HEIGHT |-> [c \in 1 .. GRID_WIDTH |-> IF c = 2 THEN 1 ELSE 0]],
     [r \in 1 .. GRID_HEIGHT |-> [c \in 1 .. GRID_WIDTH |-> IF r = c THEN 0 ELSE 1]]}

\* saved_pattern.json as an earlier session left it
InitialFile == saved_file(zeros, [Statistics EXCEPT !.generation = 1, !.total_deaths = 1,
                                                   !.max_population = 1])

\* Readings of pygame.time.get_ticks() (milliseconds since pygame.init()) the frames
\* of run() take: frames 17 ms apart, and one after a tenth of a second
Times == {0, 17, 34, 51, 101}

\* The clocks as construction leaves them
ClockInit ==
    /\ speed = 10
    /\ last_update = 0
    /\ now = 0
    /\ stepped_at = <<-1, -1>>
    /\ since_step = [elapsed |-> -1, gap |-> -1]

\* The last handlers were one recorded user action: the handler that called
\* save_to_history(), the drag that continued it, the button release.
InAction == last_op \in {"action", "action_after_undo"}

\* last_op after a handler that called save_to_history()
ActionOp == IF last_op \in {"undo", "undo_action"} THEN "action_after_undo" ELSE "action"

Init ==
    /\ pc = "constructed"
    /\ grid = zeros
    /\ stats = Statistics
    /\ history = <<>>
    /\ history_index = -1
    /\ state = "PAUSED"
    /\ is_drawing = FALSE
    /\ draw_mode = TRUE
    /\ selected_pattern = "None"
    /\ file = InitialFile
    /\ last_op = "other"
    /\ rec_grid = <<>>
    /\ undone = <<>>
    /\ saves = 0
    /\ nrec = 0
    /\ ClockInit
    /\ gol_save = Missing
    /\ alias = {}
    /\ gemini = GeminiInit

\* run(): `self.save_to_history()` before the loop
RunStart ==
    /\ pc = "constructed"
    /\ LET h == save_to_history(history, history_index, grid)
       IN  history' = h.history /\ history_index' = h.history_index
    /\ pc' = "running"
    /\ alias' = save_alias(history, history_index, alias)
    /\ rec_grid' = grid
    /\ nrec' = nrec + 1
    /\ last_op' = "other"
    /\ UNCHANGED <<timing, gol_save, since_step, gemini, grid, stats, state, is_drawing, draw_mode,
                   selected_pattern, file, undone, saves>>

\* "play_pause" button, K_SPACE
PlayPause ==
    /\ pc = "running"
    /\ state' = IF state = "PAUSED" THEN "RUNNING" ELSE "PAUSED"
    /\ last_op' = "other"
    /\ undone' = <<>>
    /\ UNCHANGED <<timing, gol_save, since_step, gemini, pc, grid, stats, history, history_index, is_drawing,
                   draw_mode, selected_pattern, file, rec_grid, saves, nrec>>
    /\ UNCHANGED alias

update_grid_recorded ==
    /\ IF Fits(grid)
       THEN \E res \in {step_result(grid)} :
               /\ grid' = res.new_grid
               /\ stats' = update_stats(stats, res.new_grid, res.births, res.deaths)
               /\ pc' = pc
               /\ alias' = {}
       ELSE /\ pc' = "crashed"
            /\ UNCHANGED <<grid, stats, alias>>
    /\ LET h == save_to_history(history, history_index, grid)
       IN  history' = h.history /\ history_index' = h.history_index
\* update_grid(): the object after the call: grid and stats are assigned when the
\* loops end, the history is not touched (previous_grid, which the core writes and
\* never reads, is left out)
update_grid ==
    /\ IF Fits(grid)
       THEN \E res \in {step_result(grid)} :
               /\ grid' = res.new_grid
               /\ stats' = update_stats(stats, res.new_grid, res.births, res.deaths)
               /\ pc' = pc
               /\ alias' = {}
       ELSE /\ pc' = "crashed"
            /\ UNCHANGED <<grid, stats, alias>>
    /\ UNCHANGED <<history, history_index>>

step_allowed_always(st) == TRUE
\* handle_button_click, "step": `if self.state == GameState.PAUSED`
step_allowed(st) == st = "PAUSED"

\* "step" button
StepButton ==
    /\ pc = "running"
    /\ IF step_allowed(state)
       THEN /\ stats.generation < MaxGen
            /\ update_grid
            /\ last_op' = "other"
       ELSE /\ UNCHANGED <<grid, stats, pc, alias, history, history_index>>
            /\ last_op' = "other"
    /\ undone' = <<>>
    /\ UNCHANGED <<timing, gol_save, since_step, gemini, state,
                   is_drawing, draw_mode, selected_pattern, file, rec_grid, saves, nrec>>

\* `current_time - self.last_update > 1000 / self.speed` of run()
playing_always(st) == TRUE
\* run(): `if self.state == GameState.RUNNING`
playing(st) == st = "RUNNING"

gate_at_interval(current_time, last, per_second) ==
    (current_time - last) * per_second >= 1000
gate(current_time, last, per_second) ==
    (current_time - last) * per_second > 1000

\* run(): a frame that steps, while RUNNING. current_time is the frame's reading of
\* the clock; the frames between two steps, which change nothing, are folded into it.
Tick ==
    /\ pc = "running"
    /\ playing(state)
    /\ stats.generation < MaxGen
    /\ \E current_time \in Times :
         /\ current_time >= now
         /\ gate(current_time, last_update, speed)
         /\ last_update' = IF Fits(grid) THEN current_time ELSE last_update
         /\ now' = current_time
         /\ stepped_at' = <<stepped_at[2], current_time>>
    /\ update_grid
    /\ last_op' = "other"
    /\ undone' = <<>>
    /\ UNCHANGED <<speed, gol_save, since_step, gemini, state,
                   is_drawing, draw_mode, selected_pattern, file, rec_grid, saves, nrec>>

clear_grid_keeps_stats ==
    /\ pc = "running"
    /\ LET h == save_to_history(history, history_index, grid)
       IN  history' = h.history /\ history_index' = h.history_index
    /\ grid' = zeros
    /\ alias' = {}
    /\ rec_grid' = grid
    /\ nrec' = IF nrec < MaxSaves THEN nrec + 1 ELSE nrec
    /\ last_op' = ActionOp
    /\ undone' = <<>>
    /\ UNCHANGED <<timing, gol_save, since_step, gemini, pc, stats, state, is_drawing,
                   draw_mode, selected_pattern, file, saves>>
\* clear_grid()
clear_grid ==
    /\ pc = "running"
    /\ LET h == save_to_history(history, history_index, grid)
       IN  history' = h.history /\ history_index' = h.history_index
    /\ grid' = zeros
    /\ alias' = {}
    /\ stats' = Statistics
    /\ rec_grid' = grid
    /\ nrec' = IF nrec < MaxSaves THEN nrec + 1 ELSE nrec
    /\ last_op' = ActionOp
    /\ undone' = <<>>
    /\ UNCHANGED <<timing, gol_save, since_step, gemini, pc, state, is_drawing, draw_mode, selected_pattern, file, saves>>

\* "clear" button, K_c
ClearGrid == nrec < MaxSaves /\ clear_grid

\* fill_random()
fill_random ==
    /\ pc = "running"
    /\ LET h == save_to_history(history, history_index, grid)
       IN  history' = h.history /\ history_index' = h.history_index
    /\ \E g \in RandomGrids : grid' = g
    /\ alias' = {}
    /\ rec_grid' = grid
    /\ nrec' = IF nrec < MaxSaves THEN nrec + 1 ELSE nrec
    /\ last_op' = ActionOp
    /\ undone' = <<>>
    /\ UNCHANGED <<timing, gol_save, since_step, gemini, pc, stats, state, is_drawing, draw_mode, selected_pattern, file, saves>>

\* "random" button, K_r
FillRandom == nrec < MaxSaves /\ fill_random

\* save_pattern("saved_pattern.json"): "save" button, Ctrl+S
SavePattern ==
    /\ pc = "running"
    /\ file' = saved_file(grid, stats)
    /\ last_op' = "other"
    /\ undone' = <<>>
    /\ UNCHANGED <<timing, gol_save, since_step, gemini, pc, grid, stats, history, history_index, state,
                   is_drawing, draw_mode, selected_pattern, rec_grid, saves, nrec>>
    /\ UNCHANGED alias

\* load_pattern("saved_pattern.json"): "load" button, Ctrl+L
LoadPattern ==
    /\ pc = "running"
    /\ LET r == load_pattern(file, grid, stats, history, history_index)
       IN  /\ r.saved = 0 \/ nrec < MaxSaves
           /\ grid' = r.grid
           /\ stats' = r.stats
           /\ history' = r.history
           /\ history_index' = r.history_index
           /\ alias' = IF r.saved = 0 THEN alias
                       ELSE IF "grid" \in DOMAIN file.data THEN {}
                       ELSE save_alias(history, history_index, alias)
           /\ nrec' = nrec + r.saved
           /\ rec_grid' = IF r.saved = 1 THEN grid ELSE rec_grid
           /\ last_op' = IF r.saved = 1 THEN ActionOp ELSE "other"
    /\ undone' = <<>>
    /\ UNCHANGED <<timing, gol_save, since_step, gemini, pc, state, is_drawing, draw_mode, selected_pattern,
                   file, saves>>

\* undo(): "undo" button, Ctrl+Z; the method can also be called on the constructed
\* object, before run()
Undo ==
    /\ pc \in {"constructed", "running"}
    /\ LET r == undo_result(history, history_index, grid)
       IN  /\ history_index' = r.history_index
           /\ grid' = r.grid
           /\ alias' = IF r.history_index # history_index /\ ~r.raised
                       THEN np_copy({r.history_index}) ELSE alias
           /\ pc' = IF r.raised THEN "crashed" ELSE pc
           /\ IF r.history_index # history_index /\ ~r.raised
              THEN /\ last_op' = IF InAction THEN "undo_action" ELSE "undo"
                   /\ undone' = grid
              ELSE /\ last_op' = IF pc = "constructed" THEN last_op ELSE "other"
                   /\ undone' = <<>>
    /\ UNCHANGED <<timing, gol_save, since_step, gemini, stats, history, state, is_drawing, draw_mode,
                   selected_pattern, file, rec_grid, saves, nrec>>

\* redo(): "redo" button, Ctrl+Y; as Undo
Redo ==
    /\ pc \in {"constructed", "running"}
    /\ LET r == redo_result(history, history_index, grid)
       IN  /\ history_index' = r.history_index
           /\ grid' = r.grid
           /\ alias' = IF r.history_index # history_index /\ ~r.raised
                       THEN np_copy({r.history_index}) ELSE alias
           /\ pc' = IF r.raised THEN "crashed" ELSE pc
           /\ IF r.history_index # history_index /\ ~r.raised
              THEN IF last_op \in {"undo", "undo_action"}
                   THEN last_op' = "redo_undo" /\ undone' = undone
                   ELSE last_op' = "other" /\ undone' = <<>>
              ELSE /\ last_op' = IF pc = "constructed" THEN last_op ELSE "other"
                   /\ undone' = <<>>
    /\ UNCHANGED <<timing, gol_save, since_step, gemini, stats, history, state, is_drawing, draw_mode,
                   selected_pattern, file, rec_grid, saves, nrec>>

\* a "pattern_<name>" button
SelectPattern ==
    /\ pc = "running"
    /\ \E name \in PatternNames : selected_pattern' = name
    /\ last_op' = "other"
    /\ undone' = <<>>
    /\ UNCHANGED <<timing, gol_save, since_step, gemini, pc, grid, stats, history, history_index, state,
                   is_drawing, draw_mode, file, rec_grid, saves, nrec>>
    /\ UNCHANGED alias

\* K_ESCAPE
Escape ==
    /\ pc = "running"
    /\ selected_pattern' = "None"
    /\ last_op' = "other"
    /\ undone' = <<>>
    /\ UNCHANGED <<timing, gol_save, since_step, gemini, pc, grid, stats, history, history_index, state,
                   is_drawing, draw_mode, file, rec_grid, saves, nrec>>
    /\ UNCHANGED alias

\* MOUSEBUTTONDOWN, button 1
MouseDownLeft ==
    /\ pc = "running"
    /\ \E pos \in MousePositions :
         IF pos[1] < WINDOW_WIDTH - SIDEBAR_WIDTH
         THEN IF selected_pattern # "None"
              THEN LET r == place_pattern(PATTERNS[selected_pattern], pos[1], pos[2],
                                          grid, history, history_index)
                   IN  /\ r.saved = 0 \/ nrec < MaxSaves
                       /\ grid' = r.grid
                       /\ history' = edited(r, history, history_index, alias).history
                       /\ alias' = edited(r, history, history_index, alias).alias
                       /\ history_index' = r.history_index
                       /\ selected_pattern' = "None"
                       /\ nrec' = nrec + r.saved
                       /\ rec_grid' = IF r.saved = 1 THEN grid ELSE rec_grid
                       /\ last_op' = IF r.saved = 1 THEN ActionOp ELSE "other"
                       /\ UNCHANGED <<is_drawing, draw_mode, saves>>
              ELSE LET r == toggle_cell(pos[1], pos[2], grid, history, history_index,
                                        is_drawing, TRUE)
                   IN  /\ r.saved = 0 \/ nrec < MaxSaves
                       /\ draw_mode' = TRUE
                       /\ grid' = r.grid
                       /\ history' = edited(r, history, history_index, alias).history
                       /\ alias' = edited(r, history, history_index, alias).alias
                       /\ history_index' = r.history_index
                       /\ is_drawing' = r.is_drawing
                       /\ saves' = saves + r.saved
                       /\ nrec' = nrec + r.saved
                       /\ rec_grid' = IF r.saved = 1 THEN grid ELSE rec_grid
                       /\ last_op' = IF r.saved = 1 THEN ActionOp
                                     ELSE IF r.wrote /\ InAction THEN last_op ELSE "other"
                       /\ UNCHANGED selected_pattern
         ELSE /\ last_op' = "other"
              /\ UNCHANGED <<grid, history, history_index, is_drawing, draw_mode,
                             selected_pattern, rec_grid, saves, nrec, alias>>
    /\ undone' = <<>>
    /\ UNCHANGED <<timing, gol_save, since_step, gemini, pc, stats, state, file>>

\* MOUSEBUTTONDOWN, button 3
MouseDownRight ==
    /\ pc = "running"
    /\ \E pos \in MousePositions :
         IF pos[1] < WINDOW_WIDTH - SIDEBAR_WIDTH
         THEN LET r == toggle_cell(pos[1], pos[2], grid, history, history_index,
                                   is_drawing, FALSE)
              IN  /\ r.saved = 0 \/ nrec < MaxSaves
                  /\ draw_mode' = FALSE
                  /\ grid' = r.grid
                  /\ history' = edited(r, history, history_index, alias).history
                  /\ alias' = edited(r, history, history_index, alias).alias
                  /\ history_index' = r.history_index
                  /\ is_drawing' = r.is_drawing
                  /\ saves' = saves + r.saved
                  /\ nrec' = nrec + r.saved
                  /\ rec_grid' = IF r.saved = 1 THEN grid ELSE rec_grid
                  /\ last_op' = IF r.saved = 1 THEN ActionOp
                                ELSE IF r.wrote /\ InAction THEN last_op ELSE "other"
         ELSE /\ last_op' = "other"
              /\ UNCHANGED <<grid, history, history_index, is_drawing, draw_mode,
                             rec_grid, saves, nrec, alias>>
    /\ undone' = <<>>
    /\ UNCHANGED <<timing, gol_save, since_step, gemini, pc, stats, state, selected_pattern, file>>

\* MOUSEBUTTONUP, button 1 or 3
MouseUp ==
    /\ pc = "running"
    /\ is_drawing' = FALSE
    /\ saves' = 0
    /\ last_op' = IF InAction THEN last_op ELSE "other"
    /\ undone' = <<>>
    /\ UNCHANGED <<timing, gol_save, since_step, gemini, pc, grid, stats, history, history_index, state,
                   draw_mode, selected_pattern, file, rec_grid, nrec>>
    /\ UNCHANGED alias

\* MOUSEMOTION (not panning)
MouseMotion ==
    /\ pc = "running"
    /\ \E pos \in MousePositions :
         IF is_drawing /\ pos[1] < WINDOW_WIDTH - SIDEBAR_WIDTH
         THEN LET r == toggle_cell(pos[1], pos[2], grid, history, history_index,
                                   is_drawing, draw_mode)
              IN  /\ r.saved = 0 \/ nrec < MaxSaves
                  /\ grid' = r.grid
                  /\ history' = edited(r, history, history_index, alias).history
                  /\ alias' = edited(r, history, history_index, alias).alias
                  /\ history_index' = r.history_index
                  /\ is_drawing' = r.is_drawing
                  /\ saves' = saves + r.saved
                  /\ nrec' = nrec + r.saved
                  /\ rec_grid' = IF r.saved = 1 THEN grid ELSE rec_grid
                  /\ last_op' = IF r.saved = 1 THEN ActionOp
                                ELSE IF ~r.wrote THEN last_op
                                ELSE IF InAction THEN last_op ELSE "other"
                  /\ undone' = IF r.wrote THEN <<>> ELSE undone
         ELSE UNCHANGED <<grid, history, history_index, is_drawing, saves, nrec,
                          rec_grid, last_op, undone, alias>>
    /\ UNCHANGED <<timing, gol_save, since_step, gemini, pc, stats, state, draw_mode, selected_pattern, file>>

Next ==
    \/ RunStart
    \/ PlayPause
    \/ StepButton
    \/ Tick
    \/ ClearGrid
    \/ FillRandom
    \/ LoadPattern
    \/ Undo
    \/ Redo
    \/ SelectPattern
    \/ Escape
    \/ MouseDownLeft
    \/ MouseDownRight
    \/ MouseUp
    \/ MouseMotion

\* The session: run() with all the handlers above, at most MaxSaves records and
\* MaxGen generations.
Spec == Init /\ [][Next]_vars

\* The session of a user who edits and never runs the simulation.
NextEdit ==
    \/ RunStart
    \/ ClearGrid
    \/ FillRandom
    \/ LoadPattern
    \/ Undo
    \/ Redo
    \/ SelectPattern
    \/ Escape
    \/ MouseDownLeft
    \/ MouseDownRight
    \/ MouseUp
    \/ MouseMotion

SpecEdit == Init /\ [][NextEdit]_vars

\* The history under any sequence, of any length, of records (clear_grid and
\* fill_random, each a save_to_history() and a new grid), undo() and redo().
NextHistory ==
    \/ RunStart
    \/ clear_grid
    \/ fill_random
    \/ Undo
    \/ Redo

SpecHistory == Init /\ [][NextHistory]_vars

\* saved_pattern.json as something other than save_pattern left it: text that does
\* not parse, an object without "grid", an object whose "stats" is not an object
MalformedFiles ==
    {Unparsable,
     [kind |-> "object", data |-> [stats |-> InitialFile.data.stats]],
     [kind |-> "object", data |-> [grid |-> CHOOSE g \in RandomGrids : g[1][1] = 0 /\ g[1][2] = 1 /\ g[1][3] = 1, stats |-> NotADict]]}

\* The editing session started beside any saved_pattern.json
InitLoad ==
    /\ pc = "constructed"
    /\ grid = zeros
    /\ stats = Statistics
    /\ history = <<>>
    /\ history_index = -1
    /\ state = "PAUSED"
    /\ is_drawing = FALSE
    /\ draw_mode = TRUE
    /\ selected_pattern = "None"
    /\ file \in MalformedFiles \cup {InitialFile}
    /\ last_op = "other"
    /\ rec_grid = <<>>
    /\ undone = <<>>
    /\ saves = 0
    /\ nrec = 0
    /\ ClockInit
    /\ gol_save = Missing
    /\ alias = {}
    /\ gemini = GeminiInit

SpecLoad == InitLoad /\ [][NextEdit]_vars

\* Statistics update_grid can start from: those a load_pattern left one generation
\* before the bound, with totals and a maximum from earlier steps.
StepStats ==
    {[generation |-> MaxGen - 1, population |-> 3, births |-> 1, deaths |-> 0,
      max_population |-> 4, total_births |-> 2, total_deaths |-> 1, numpy |-> {}]}

\* The side of the Moore neighbourhood: the number of values dr (and dc) takes
NeighbourhoodSide == Cardinality({Offsets[i][1] : i \in 1 .. Len(Offsets)})

\* g with the rows x cols matrix block copied in at (top, left), 0-based
embed(g, block, top, left) ==
    [r \in 1 .. Len(g) |->
       [c \in 1 .. Len(g[1]) |->
          IF /\ top < r /\ r <= top + Len(block)
             /\ left < c /\ c <= left + Len(block[1])
          THEN block[r - top][c - left] ELSE g[r][c]]]

\* Every grid whose alive cells fit in one neighbourhood-sized block: each content
\* of the block at each place of the grid, so every cell of the grid meets every
\* content of the part of its neighbourhood that lies inside the grid.
BlockGrids ==
    {embed(zeros, block, top, left) :
        block \in [1 .. NeighbourhoodSide -> [1 .. NeighbourhoodSide -> {0, 1}]],
        top \in 0 .. GRID_HEIGHT - NeighbourhoodSide,
        left \in 0 .. GRID_WIDTH - NeighbourhoodSide}

\* The core variables before one update_grid() call on a grid of BlockGrids
StepInputs ==
    /\ pc = "running"
    /\ grid \in BlockGrids
    /\ stats \in StepStats
    /\ history = <<zeros>>
    /\ history_index = 0
    /\ state = "PAUSED"
    /\ is_drawing = FALSE
    /\ draw_mode = TRUE
    /\ selected_pattern = "None"
    /\ file = InitialFile
    /\ last_op = "other"
    /\ rec_grid = zeros
    /\ undone = <<>>
    /\ saves = 0
    /\ nrec = 1
    /\ ClockInit
    /\ gol_save = Missing
    /\ alias = {}

\* One update_grid() call (the "step" button) on every grid of BlockGrids.
InitStep == StepInputs /\ gemini = GeminiInit

SpecStep == InitStep /\ [][StepButton]_vars

\* step() of GameOfLife_Gemini.py: the "step" button, and update() when running
step ==
    /\ gemini.generation < MaxTorusGen
    /\ \E g \in {step_grid(gemini.grid)} :
         gemini' = [gemini EXCEPT !.prev_grid = gemini.grid, !.grid = g, !.generation = @ + 1]
    /\ since_step' = IF gemini.is_running
                   THEN [elapsed |-> 0, gap |-> since_step.elapsed]
                   ELSE since_step
    /\ UNCHANGED <<timing, gol_save, pc, grid, stats, history, history_index, state, is_drawing,
                   draw_mode, selected_pattern, file, last_op, rec_grid, undone,
                   saves, nrec>>
    /\ UNCHANGED alias

\* g with the matrix block copied in at (top, left), rows and columns counted
\* modulo the shape of g
embed_wrap(g, block, top, left) ==
    [r \in 1 .. Len(g) |->
       [c \in 1 .. Len(g[1]) |->
          LET dr == (r - 1 - top) % Len(g)
              dc == (c - 1 - left) % Len(g[1])
          IN  IF dr < Len(block) /\ dc < Len(block[1])
              THEN block[dr + 1][dc + 1] ELSE g[r][c]]]

\* Every grid of the torus whose alive cells fit in one kernel-sized block, the
\* block at every place, also across the edges.
TorusBlockGrids ==
    {embed_wrap(torus_zeros, block, top, left) :
        block \in [1 .. Len(kernel) -> [1 .. Len(kernel[1]) -> {0, 1}]],
        top \in 0 .. grid_height - 1,
        left \in 0 .. grid_width - 1}

\* The core variables of a session that is not run
CoreIdle ==
    /\ pc = "constructed"
    /\ grid = zeros
    /\ stats = Statistics
    /\ history = <<>>
    /\ history_index = -1
    /\ state = "PAUSED"
    /\ is_drawing = FALSE
    /\ draw_mode = TRUE
    /\ selected_pattern = "None"
    /\ file = InitialFile
    /\ last_op = "other"
    /\ rec_grid = <<>>
    /\ undone = <<>>
    /\ saves = 0
    /\ nrec = 0
    /\ ClockInit
    /\ gol_save = Missing
    /\ alias = {}

\* One step() call of the toroidal variant on every grid of TorusBlockGrids.
InitTorus ==
    /\ CoreIdle
    /\ \E g \in TorusBlockGrids :
         gemini = [GeminiInit EXCEPT !.grid = g, !.generation = MaxTorusGen - 1]

SpecTorus == InitTorus /\ [][step]_vars

\* The empty torus, and a Glider lying across its corner
TorusSamples ==
    {torus_zeros,
     embed_wrap(torus_zeros, PATTERNS_Gemini.Glider, grid_height - 1, grid_width - 1)}

\* The grids of the torus that hold only PATTERNS['Glider'], at every place, also
\* across the edges
GliderGrids ==
    {embed_wrap(torus_zeros, PATTERNS_Gemini.Glider, top, left) :
        top \in 0 .. grid_height - 1, left \in 0 .. grid_width - 1}

\* A toroidal session that starts from a Glider and steps MaxTorusGen times
InitGlider ==
    /\ CoreIdle
    /\ \E g \in GliderGrids : gemini = [GeminiInit EXCEPT !.grid = g]

SpecGlider == InitGlider /\ [][step]_vars

\* One step of either program on each of its inputs: update_grid() of GameOfLife.py
\* beside a toroidal session on a grid of TorusSamples, or step() of
\* GameOfLife_Gemini.py beside a core session that is not run.
InitRule ==
    \/ /\ StepInputs
       /\ \E g \in TorusSamples :
            gemini = [GeminiInit EXCEPT !.grid = g, !.generation = MaxTorusGen - 1]
    \/ InitTorus

NextRule == StepButton \/ step

SpecRule == InitRule /\ [][NextRule]_vars


\* select_pattern(name) of GameOfLife_Gemini.py (a pattern button of the panel)
select_pattern ==
    /\ \E name \in DOMAIN PATTERNS_Gemini :
         gemini' = [gemini EXCEPT !.active_pattern = PATTERNS_Gemini[name]]
    /\ UNCHANGED <<timing, gol_save, since_step, pc, grid, stats, history, history_index,
                   state, is_drawing, draw_mode, selected_pattern, file, last_op, rec_grid,
                   undone, saves, nrec>>
    /\ UNCHANGED alias

\* A pixel of the view inside world cell (row, col)
world_px(row, col) == <<offset_x + col * zoom + 5, offset_y + row * zoom + 5>>

\* pygame.mouse.get_pos() at a click: three cells of the grid (two corners and an
\* inner cell), a point of the view right of the grid and a point of the panel
GeminiMousePositions ==
    {world_px(0, 0), world_px(2, 2), world_px(grid_height - 1, grid_width - 1),
     world_px(0, grid_width + 2),
     <<SCREEN_WIDTH - PANEL_WIDTH, 5>>}

\* handle_events of GameOfLife_Gemini.py: MOUSEBUTTONDOWN, button 1, while a pattern
\* is active and no button is held (is_drawing False, as __init__ leaves it: drawing
\* is not modelled)
GeminiMouseDownLeft ==
    /\ gemini.active_pattern # <<>>
    /\ \E mouse_pos \in GeminiMousePositions :
         IF mouse_pos[1] < SCREEN_WIDTH - PANEL_WIDTH
         THEN gemini' = [gemini EXCEPT
                           !.grid = place_pattern_gemini(gemini.grid, gemini.active_pattern,
                                                         mouse_pos),
                           !.active_pattern = <<>>]
         ELSE UNCHANGED gemini
    /\ UNCHANGED <<timing, gol_save, since_step, pc, grid, stats, history, history_index,
                   state, is_drawing, draw_mode, selected_pattern, file, last_op, rec_grid,
                   undone, saves, nrec>>
    /\ UNCHANGED alias

\* The sessions of two users who place patterns, one in each program: GameOfLife.py
\* after an optional fill_random, GameOfLife_Gemini.py placing pattern over pattern.
NextPlace ==
    \/ RunStart
    \/ FillRandom
    \/ SelectPattern
    \/ MouseDownLeft
    \/ select_pattern
    \/ GeminiMouseDownLeft

SpecPlace == Init /\ [][NextPlace]_vars

\* save_grid(): the "Save" button of GameOfLife_Gemini.py
SaveGrid ==
    /\ gol_save' = saved_grid(gemini)
    /\ UNCHANGED <<timing, since_step, gemini, pc, grid, stats, history, history_index,
                   state, is_drawing, draw_mode, selected_pattern, file, last_op, rec_grid,
                   undone, saves, nrec>>
    /\ UNCHANGED alias

\* load_grid(): the "Load" button of GameOfLife_Gemini.py
LoadGrid ==
    /\ gemini' = load_grid(gol_save, gemini)
    /\ UNCHANGED <<timing, gol_save, since_step, pc, grid, stats, history, history_index,
                   state, is_drawing, draw_mode, selected_pattern, file, last_op, rec_grid,
                   undone, saves, nrec>>
    /\ UNCHANGED alias

\* A file that is not there, and one that cannot be opened
AbsentFiles == {Missing, Unreadable}

\* saved_pattern.json with statistics left out: no "stats" at all, and a "stats" that
\* holds the generation only
PartialFiles ==
    {[kind |-> "object", data |-> [grid |-> zeros]],
     [kind |-> "object", data |-> [grid |-> zeros, stats |-> [generation |-> 1]]]}

\* A matrix of rows x cols cells, alive where row + column is even
checker(rows, cols) == [r \in 1 .. rows |-> [c \in 1 .. cols |-> (r + c + 1) % 2]]

\* gol_save.json as save_grid of a session with another window left it: a grid of the
\* same size, a smaller one, a larger one, a taller and narrower one; and one written
\* without a generation
StoredGrids ==
    {[kind |-> "object", data |-> [grid |-> g, generation |-> 2]] :
        g \in {checker(grid_height, grid_width), checker(grid_height - 1, grid_width - 2),
               checker(grid_height + 1, grid_width + 1), checker(grid_height + 2, grid_width - 1)}}
    \cup {[kind |-> "object", data |-> [grid |-> checker(grid_height - 1, grid_width)]]}

\* Two sessions, one of each program, started beside any of these files; the toroidal
\* one holds a grid of TorusSamples
InitFiles ==
    /\ pc = "constructed"
    /\ grid = zeros
    /\ stats = Statistics
    /\ history = <<>>
    /\ history_index = -1
    /\ state = "PAUSED"
    /\ is_drawing = FALSE
    /\ draw_mode = TRUE
    /\ selected_pattern = "None"
    /\ file \in AbsentFiles \cup PartialFiles \cup {InitialFile}
    /\ last_op = "other"
    /\ rec_grid = <<>>
    /\ undone = <<>>
    /\ saves = 0
    /\ nrec = 0
    /\ ClockInit
    /\ gol_save \in AbsentFiles \cup StoredGrids
    /\ alias = {}
    /\ \E g \in TorusSamples : gemini = [GeminiInit EXCEPT !.grid = g]

\* The users fill, step, save and load
NextFiles ==
    \/ RunStart
    \/ FillRandom
    \/ StepButton
    \/ LoadPattern
    \/ step
    \/ LoadGrid

SpecFiles == InitFiles /\ [][NextFiles]_vars

\* saved_pattern.json holding a grid of another size than the session's: one row and
\* one column short, and one row and one column over
OtherSizeFiles ==
    {[kind |-> "object", data |-> [grid |-> [r \in 1 .. rows |-> [c \in 1 .. cols |-> 1]]]] :
        rows \in {GRID_HEIGHT - 1}, cols \in {GRID_WIDTH - 1}}
    \cup
    {[kind |-> "object", data |-> [grid |-> [r \in 1 .. rows |-> [c \in 1 .. cols |-> 1]]]] :
        rows \in {GRID_HEIGHT + 1}, cols \in {GRID_WIDTH + 1}}

\* The session started beside a file written for another grid size, or its own
InitResize ==
    /\ pc = "constructed"
    /\ grid = zeros
    /\ stats = Statistics
    /\ history = <<>>
    /\ history_index = -1
    /\ state = "PAUSED"
    /\ is_drawing = FALSE
    /\ draw_mode = TRUE
    /\ selected_pattern = "None"
    /\ file \in OtherSizeFiles \cup {InitialFile}
    /\ last_op = "other"
    /\ rec_grid = <<>>
    /\ undone = <<>>
    /\ saves = 0
    /\ nrec = 0
    /\ ClockInit
    /\ gol_save = Missing
    /\ alias = {}
    /\ gemini = GeminiInit

\* The user loads, steps, plays, clears, fills, undoes and redoes (the handlers that
\* take the grid as a whole or walk it with the loops of update_grid)
NextResize ==
    \/ RunStart
    \/ LoadPattern
    \/ PlayPause
    \/ StepButton
    \/ Tick
    \/ ClearGrid
    \/ FillRandom
    \/ Undo
    \/ Redo

SpecResize == InitResize /\ [][NextResize]_vars

(***************************************************************************)
(* Properties                                                              *)
(***************************************************************************)

Cells == Rows \X Cols

Alive(g, cell) == g[cell[1] + 1][cell[2] + 1] = 1

Abs(n) == IF n < 0 THEN -n ELSE n

\* The alive cells among the Moore neighbours of cell that lie inside the grid
AliveAround(g, cell) ==
    Cardinality({n \in Cells : /\ n # cell
                               /\ Abs(n[1] - cell[1]) <= 1
                               /\ Abs(n[2] - cell[2]) <= 1
                               /\ Alive(g, n)})

Born(g, h) == {cell \in Cells : ~Alive(g, cell) /\ Alive(h, cell)}
Died(g, h) == {cell \in Cells : Alive(g, cell) /\ ~Alive(h, cell)}
Population(g) == Cardinality({cell \in Cells : Alive(g, cell)})

\* A step in which update_grid() ran
UpdateStep == (StepButton /\ state = "PAUSED") \/ Tick

\* A step in which a handler called save_to_history() unconditionally
RecordStep == RunStart \/ clear_grid \/ fill_random

\* C1: a cell is alive after update_grid() exactly when it was alive with 2 or 3
\* alive neighbours or dead with exactly 3; deaths is the number of cells that went
\* from alive to dead and births the number that went from dead to alive.
C1_TransitionRule ==
    [][UpdateStep =>
         /\ grid' \in AllGrids
         /\ \A cell \in Cells :
              Alive(grid', cell) <=>
                \/ Alive(grid, cell) /\ AliveAround(grid, cell) \in {2, 3}
                \/ ~Alive(grid, cell) /\ AliveAround(grid, cell) = 3
         /\ stats'.deaths = Cardinality(Died(grid, grid'))
         /\ stats'.births = Cardinality(Born(grid, grid'))]_vars

\* C1: a step in which cells were born, cells died and cells survived
C1_Witness ==
    /\ stats.generation = MaxGen
    /\ stats.births > 0
    /\ stats.deaths > 0
    /\ Population(grid) > stats.births

\* C2: an undo() right after a recorded user action installs the grid that
\* save_to_history() recorded for that action.
C2_UndoRestoresRecorded == last_op = "undo_action" => grid = rec_grid

\* C3: an undo() that moved the cursor, followed at once by redo(), leaves the live
\* grid as it was before the undo.
C3_RedoRestoresUndone == last_op = "redo_undo" => grid = undone

\* C4: a record made with the cursor before the last entry drops the entries after
\* the cursor and appends the snapshot; a redo() right after a record that followed
\* an undo() changes neither the grid nor history_index.
C4_RedoBranchDiscarded ==
    [][/\ (RecordStep /\ history_index < Len(history) - 1) =>
            /\ history' = Append(SubSeq(history, 1, history_index + 1), grid)
            /\ history_index' = Len(history') - 1
       /\ (Redo /\ last_op = "action_after_undo") =>
            /\ grid' = grid
            /\ history_index' = history_index
            /\ history' = history]_vars

\* C4: a record that followed an undo(): the cursor is at the entry just recorded
C4_Witness ==
    /\ last_op = "action_after_undo"
    /\ history_index = Len(history) - 1
    /\ history[Len(history)] = rec_grid

C6_CursorValid == history # <<>> => (0 <= history_index /\ history_index < Len(history))

\* C6: an undo() after a record made at capacity
C6_Witness ==
    /\ Len(history) = max_history
    /\ history[1] # zeros
    /\ history_index = 0
    /\ last_op \in {"undo", "undo_action"}

C8_UndoRedoTotal ==
    [][/\ pc' # "crashed"
       /\ Undo =>
            /\ history' = history
            /\ IF history_index <= 0
               THEN grid' = grid /\ history_index' = history_index
               ELSE /\ history_index' = history_index - 1
                    /\ grid' = history[history_index' + 1]
       /\ Redo =>
            /\ history' = history
            /\ IF history_index >= Len(history) - 1
               THEN grid' = grid /\ history_index' = history_index
               ELSE /\ history_index' = history_index + 1
                    /\ grid' = history[history_index' + 1]]_vars

\* C8: an undo() moved the cursor off the last entry and installed the entry there
C8_Witness ==
    /\ last_op \in {"undo", "undo_action"}
    /\ history_index < Len(history) - 1
    /\ grid = history[history_index + 1]
    /\ grid # undone

\* A step of a handler that edits the grid
EditStep ==
    ClearGrid \/ FillRandom \/ LoadPattern \/ MouseDownLeft \/ MouseDownRight \/ MouseMotion

\* C9: an editing handler that changes the grid has called save_to_history() on
\* the grid as it was, or continues a mouse gesture that has; between two button
\* releases toggle_cell calls save_to_history() at most once, when the gesture
\* reaches its first cell of the grid.
C9_RecordBeforeEdit ==
    [][/\ (grid' # grid /\ EditStep) =>
            \/ /\ nrec' = nrec + 1
               /\ history'[Len(history')] = grid
            \/ /\ nrec' = nrec
               /\ is_drawing /\ is_drawing'
               /\ saves = 1
       /\ saves' <= 1
       /\ saves' = saves + 1 => (~is_drawing /\ is_drawing' /\ nrec' = nrec + 1)
       /\ is_drawing' => saves' = 1]_vars

\* C9: a drag that has written two cells and recorded once
C9_Witness ==
    /\ is_drawing
    /\ saves = 1
    /\ InAction
    /\ Cardinality({cell \in Cells : Alive(grid, cell) # Alive(rec_grid, cell)}) >= 2

\* Cells of the first or last row, of the first or last column
InEdgeRow(cell) == cell[1] \in {0, GRID_HEIGHT - 1}
InEdgeCol(cell) == cell[2] \in {0, GRID_WIDTH - 1}

\* C11: get_neighbors(row, col) is the number of alive cells among the Moore
\* neighbours of (row, col) that lie inside the grid (no wrap-around); it is between
\* 0 and 8, at most 3 for a corner cell and at most 5 for any other edge cell.
C11_NeighborCount ==
    \A cell \in Cells :
        LET n == get_neighbors(grid, cell[1], cell[2])
        IN  /\ n = AliveAround(grid, cell)
            /\ n \in 0 .. 8
            /\ (InEdgeRow(cell) /\ InEdgeCol(cell)) => n <= 3
            /\ (InEdgeRow(cell) \/ InEdgeCol(cell)) => n <= 5

\* C11: a grid on which a corner cell counts 3, an edge cell 5 and an inner cell 8,
\* with alive cells in the row that a wrap-around would reach
C11_Witness ==
    /\ get_neighbors(grid, 0, 0) = 3
    /\ get_neighbors(grid, 0, 1) = 5
    /\ get_neighbors(grid, 1, 1) = 8
    /\ Alive(grid, <<GRID_HEIGHT - 1, 0>>)

\* C10: update_grid() adds one to generation, sets births and deaths to the step's
\* counts, adds them to the totals, sets population to the number of alive cells of
\* the new grid and max_population to the larger of its old value and population.
C10_StatsAfterStep ==
    [][UpdateStep =>
         /\ stats'.generation = stats.generation + 1
         /\ stats'.births = Cardinality(Born(grid, grid'))
         /\ stats'.deaths = Cardinality(Died(grid, grid'))
         /\ stats'.total_births = stats.total_births + Cardinality(Born(grid, grid'))
         /\ stats'.total_deaths = stats.total_deaths + Cardinality(Died(grid, grid'))
         /\ stats'.population = Population(grid')
         /\ stats'.max_population =
              IF Population(grid') > stats.max_population
              THEN Population(grid') ELSE stats.max_population]_vars

\* C10: a step whose counts were added to earlier totals and whose population is
\* below the earlier maximum
C10_Witness ==
    /\ stats.generation = MaxGen
    /\ stats.births > 0
    /\ stats.total_births > stats.births
    /\ stats.total_deaths > stats.deaths
    /\ stats.max_population > stats.population

\* The cell of the torus g at (r, c), 0-based, any integers: taken modulo H and W
TorusCell(g, r, c) == g[(r % Len(g)) + 1][(c % Len(g[1])) + 1]

\* The naive toroidal count: the sum over the 8 offsets (dr, dc) of the cell at
\* ((row + dr) mod H, (col + dc) mod W)
NaiveCount(g, row, col) ==
    TorusCell(g, row - 1, col - 1) + TorusCell(g, row - 1, col) + TorusCell(g, row - 1, col + 1)
    + TorusCell(g, row, col - 1) + TorusCell(g, row, col + 1)
    + TorusCell(g, row + 1, col - 1) + TorusCell(g, row + 1, col) + TorusCell(g, row + 1, col + 1)

\* The birth/survival rule applied to the naive counts of g
NaiveStep(g) ==
    [r \in 1 .. Len(g) |-> [c \in 1 .. Len(g[1]) |->
        IF \/ g[r][c] = 1 /\ NaiveCount(g, r - 1, c - 1) \in {2, 3}
           \/ g[r][c] = 0 /\ NaiveCount(g, r - 1, c - 1) = 3
        THEN 1 ELSE 0]]

\* C12: in every step() of the toroidal variant the counts of the wrap-boundary
\* convolution equal the naive toroidal counts at every cell, and the new grid is the
\* birth/survival rule applied to the naive counts.
C12_ConvolutionIsNaive ==
    [][step =>
         /\ convolve2d(gemini.grid, kernel) =
              [r \in 1 .. grid_height |-> [c \in 1 .. grid_width |->
                  NaiveCount(gemini.grid, r - 1, c - 1)]]
         /\ gemini'.grid = NaiveStep(gemini.grid)
         /\ gemini'.generation = gemini.generation + 1]_vars

\* C12: after a step() that left alive cells on both sides of an edge of the torus
C12_Witness ==
    /\ gemini.generation = MaxTorusGen
    /\ \E r \in 1 .. grid_height :
         gemini.grid[r][1] = 1 /\ gemini.grid[r][grid_width] = 1

\* The rule applied to every cell of g with the neighbours counted on g itself
SynchronousNext(g) ==
    [r \in 1 .. GRID_HEIGHT |-> [c \in 1 .. GRID_WIDTH |->
        IF \/ g[r][c] = 1 /\ AliveAround(g, <<r - 1, c - 1>>) \in {2, 3}
           \/ g[r][c] = 0 /\ AliveAround(g, <<r - 1, c - 1>>) = 3
        THEN 1 ELSE 0]]

\* C13: the step is synchronous: after update_grid() (GameOfLife.py) and after
\* step() (GameOfLife_Gemini.py) every cell of the new grid is the rule applied to
\* the cell and the neighbour count it had in the grid before the step; no count
\* sees a cell value of the new generation. (In SpecRule the steps that change a
\* generation are exactly the update_grid() and step() calls.)
C13_SynchronousStep ==
    [][/\ stats'.generation # stats.generation => grid' = SynchronousNext(grid)
       /\ gemini'.generation # gemini.generation => gemini'.grid = NaiveStep(gemini.grid)]_vars

\* C13: after an update_grid() in which cells were born and died, one of them next
\* to cells visited later, and a step() of the toroidal variant on a Glider
C13_Witness ==
    /\ stats.generation = MaxGen
    /\ stats.births > 0
    /\ stats.deaths > 0
    /\ Alive(grid, <<0, 1>>)
    /\ gemini.generation = MaxTorusGen
    /\ gemini.grid # torus_zeros

\* C14: a step on a grid with no live cells leaves a grid with no live cells, in
\* both programs, and update_grid() then counts 0 births and 0 deaths; so the empty
\* grid stays empty under any number of steps.
C14_EmptyFixedPoint ==
    [][/\ (grid = zeros /\ UpdateStep) =>
            /\ grid' = zeros
            /\ stats'.births = 0
            /\ stats'.deaths = 0
       /\ (gemini.grid = torus_zeros /\ step) => gemini'.grid = torus_zeros]_vars

\* C14: both programs have stepped on the empty grid
C14_Witness ==
    /\ stats.generation = MaxGen
    /\ grid = zeros
    /\ stats.births = 0
    /\ stats.deaths = 0
    /\ gemini.generation = MaxTorusGen
    /\ gemini.grid = torus_zeros

\* The grids that hold only PATTERNS["Blinker"], at least one cell away from every
\* edge of the grid
BlinkerGrids ==
    {embed(zeros, PATTERNS.Blinker, top, left) :
        top \in 1 .. GRID_HEIGHT - Len(PATTERNS.Blinker) - 1,
        left \in 1 .. GRID_WIDTH - Len(PATTERNS.Blinker[1]) - 1}

\* C15: on a grid that holds only a Blinker away from the edges, one update_grid()
\* call gives a different grid and two consecutive calls give the grid back.
C15_BlinkerPeriodTwo ==
    grid \in BlinkerGrids =>
        /\ step_result(grid).new_grid # grid
        /\ step_result(step_result(grid).new_grid).new_grid = grid

\* C15: an update_grid() call has just returned a Blinker grid (from the grid the
\* Blinker turns into)
C15_Witness ==
    /\ stats.generation = MaxGen
    /\ stats.births = 2
    /\ stats.deaths = 2
    /\ grid \in BlinkerGrids

\* g moved by (dr, dc) on the torus: the cell at (r, c) goes to
\* ((r + dr) mod H, (c + dc) mod W)
Translate(g, dr, dc) ==
    [r \in 1 .. Len(g) |-> [c \in 1 .. Len(g[1]) |-> TorusCell(g, r - 1 - dr, c - 1 - dc)]]

\* The number of alive cells of g
LiveCells(g) == Cardinality({rc \in (1 .. Len(g)) \X (1 .. Len(g[1])) : g[rc[1]][rc[2]] = 1})

\* g after n step() calls
RECURSIVE StepN(_, _)
StepN(g, n) == IF n = 0 THEN g ELSE StepN(step_grid(g), n - 1)

\* C16: on the torus, a grid that holds only a Glider is, 4 step() calls later, the
\* same grid moved by one row and one column (modulo H and W), so a Glider again;
\* the population is 5 after every step.
C16_GliderTranslates ==
    /\ LiveCells(gemini.grid) = 5
    /\ gemini.generation % 4 = 0 => gemini.grid \in GliderGrids
    /\ gemini.grid \in GliderGrids =>
         /\ StepN(gemini.grid, 4) = Translate(gemini.grid, 1, 1)
         /\ \A n \in 1 .. 4 : LiveCells(StepN(gemini.grid, n)) = 5

\* C16: four step() calls have moved a Glider across an edge of the torus
C16_Witness ==
    /\ gemini.generation = 4
    /\ gemini.grid \in GliderGrids
    /\ \E r \in 1 .. grid_height :
         gemini.grid[r][1] = 1 /\ gemini.grid[r][grid_width] = 1

\* The anchor <<row, column>> of a placement of GameOfLife.py: the cell under event.pos
CoreAnchor(pos) ==
    <<(pos[2] - grid_offset_y) \div CELL_SIZE, (pos[1] - grid_offset_x) \div CELL_SIZE>>

\* The anchor of a placement of GameOfLife_Gemini.py: the cell under the cursor,
\* moved up and left by half the pattern
GeminiAnchor(pattern, mouse_pos) ==
    <<screen_to_world(mouse_pos[1], mouse_pos[2])[2] - Len(pattern) \div 2,
      screen_to_world(mouse_pos[1], mouse_pos[2])[1] - Len(pattern[1]) \div 2>>

\* This step is the left click at pos that places the selected pattern of GameOfLife.py
CorePlaceAt(pos) ==
    /\ selected_pattern # "None"
    /\ selected_pattern' = "None"
    /\ pc = "running"
    /\ pos[1] < WINDOW_WIDTH - SIDEBAR_WIDTH
    /\ LET r == place_pattern(PATTERNS[selected_pattern], pos[1], pos[2],
                              grid, history, history_index)
       IN  grid' = r.grid /\ history' = r.history /\ history_index' = r.history_index

\* This step is the left click at mouse_pos that places the active pattern of
\* GameOfLife_Gemini.py
GeminiPlaceAt(mouse_pos) ==
    /\ gemini.active_pattern # <<>>
    /\ gemini'.active_pattern = <<>>
    /\ mouse_pos[1] < SCREEN_WIDTH - PANEL_WIDTH
    /\ gemini'.grid = place_pattern_gemini(gemini.grid, gemini.active_pattern, mouse_pos)

\* The pattern cell over grid cell (r, c) when the pattern is anchored at anchor:
\* 0 or 1, or -1 when the cell is outside the pattern's bounding box
PatternOver(pattern, anchor, r, c) ==
    IF /\ anchor[1] <= r /\ r < anchor[1] + Len(pattern)
       /\ anchor[2] <= c /\ c < anchor[2] + Len(pattern[1])
    THEN pattern[r - anchor[1] + 1][c - anchor[2] + 1]
    ELSE -1

\* h is g with the pattern placed at anchor and clipped at the boundary: every cell of
\* the grid under an alive pattern cell is alive, every cell outside the bounding box
\* is as it was (so nothing wraps, and a box outside the grid changes nothing)
Clipped(g, h, pattern, anchor) ==
    \A r \in 0 .. Len(g) - 1, c \in 0 .. Len(g[1]) - 1 :
       /\ PatternOver(pattern, anchor, r, c) = 1 => h[r + 1][c + 1] = 1
       /\ PatternOver(pattern, anchor, r, c) = -1 => h[r + 1][c + 1] = g[r + 1][c + 1]

\* C17: a placement clips silently at the grid boundary, in both programs: it raises
\* no error, every in-range target cell receives its pattern cell (the cell under an
\* alive pattern cell is alive afterwards), no cell outside the pattern's bounding
\* box changes (nothing wraps), and a bounding box fully outside the grid leaves the
\* grid unchanged.
C17_PlacementClips ==
    [][/\ \A pos \in MousePositions :
            CorePlaceAt(pos) =>
              /\ pc' = "running"
              /\ Clipped(grid, grid', PATTERNS[selected_pattern], CoreAnchor(pos))
       /\ \A mouse_pos \in GeminiMousePositions :
            GeminiPlaceAt(mouse_pos) =>
              Clipped(gemini.grid, gemini'.grid, gemini.active_pattern,
                      GeminiAnchor(gemini.active_pattern, mouse_pos))]_vars

\* h holds, in every cell under the bounding box of the pattern anchored at anchor, the
\* pattern cell over it
Overwritten(h, pattern, anchor) ==
    \A r \in 0 .. Len(h) - 1, c \in 0 .. Len(h[1]) - 1 :
       PatternOver(pattern, anchor, r, c) # -1 => h[r + 1][c + 1] = PatternOver(pattern, anchor, r, c)

\* Every cell of g that is alive under a dead cell of the pattern is alive in h
AliveKept(g, h, pattern, anchor) ==
    \A r \in 0 .. Len(g) - 1, c \in 0 .. Len(g[1]) - 1 :
       g[r + 1][c + 1] = 1 /\ PatternOver(pattern, anchor, r, c) = 0 => h[r + 1][c + 1] = 1

\* C18, as stated: place_pattern writes alive marks only; a cell that was alive before
\* the placement and lies under a dead (0) cell of the pattern is alive after it.
C18_OnlyAliveWritten ==
    [][/\ \A pos \in MousePositions :
            CorePlaceAt(pos) =>
              AliveKept(grid, grid', PATTERNS[selected_pattern], CoreAnchor(pos))
       /\ \A mouse_pos \in GeminiMousePositions :
            GeminiPlaceAt(mouse_pos) =>
              AliveKept(gemini.grid, gemini'.grid, gemini.active_pattern,
                        GeminiAnchor(gemini.active_pattern, mouse_pos))]_vars

\* C18, amended: place_pattern writes every pattern cell, dead or alive. After a
\* placement of GameOfLife.py whose anchor cell is inside the grid, and after any
\* placement of GameOfLife_Gemini.py, each grid cell under the pattern's bounding box
\* holds the value of the pattern cell over it: a cell that was alive under a dead
\* pattern cell is dead.
C18_PlacementOverwrites ==
    [][/\ \A pos \in MousePositions :
            CorePlaceAt(pos) /\ CoreAnchor(pos) \in Cells =>
              Overwritten(grid', PATTERNS[selected_pattern], CoreAnchor(pos))
       /\ \A mouse_pos \in GeminiMousePositions :
            GeminiPlaceAt(mouse_pos) =>
              Overwritten(gemini'.grid, gemini.active_pattern,
                          GeminiAnchor(gemini.active_pattern, mouse_pos))]_vars

\* Both programs have just placed a Glider over an alive cell that lies under one of
\* its dead cells, and the cell is dead: in GameOfLife.py on the grid recorded before
\* the placement, in GameOfLife_Gemini.py on a Glider placed before.
C18_Witness ==
    /\ InAction
    /\ selected_pattern = "None"
    /\ \E pos \in MousePositions :
         /\ CoreAnchor(pos) \in Cells
         /\ grid = place_pattern(PATTERNS.Glider, pos[1], pos[2], rec_grid, <<>>, -1).grid
         /\ \E cell \in Cells :
              /\ Alive(rec_grid, cell)
              /\ PatternOver(PATTERNS.Glider, CoreAnchor(pos), cell[1], cell[2]) = 0
              /\ ~Alive(grid, cell)
    /\ gemini.active_pattern = <<>>
    /\ \E p1 \in GeminiMousePositions, p2 \in GeminiMousePositions :
         LET g1 == place_pattern_gemini(torus_zeros, PATTERNS_Gemini.Glider, p1)
             anchor == GeminiAnchor(PATTERNS_Gemini.Glider, p2)
         IN  /\ gemini.grid = place_pattern_gemini(g1, PATTERNS_Gemini.Glider, p2)
             /\ \E r \in 0 .. grid_height - 1, c \in 0 .. grid_width - 1 :
                  /\ g1[r + 1][c + 1] = 1
                  /\ PatternOver(PATTERNS_Gemini.Glider, anchor, r, c) = 0
                  /\ gemini.grid[r + 1][c + 1] = 0

\* The five statistics save_pattern writes and load_pattern reads
SavedStats == {"generation", "population", "max_population", "total_births", "total_deaths"}

\* load_pattern, in a session that has just started, of the file save_pattern
\* writes for grid g and statistics s
RoundTrip(g, s) == load_pattern(saved_file(g, s), zeros, Statistics, <<zeros>>, 0)

\* C19: in GameOfLife.py, for the grid and statistics of any reachable state, those
\* reached through update_grid steps included, save_pattern followed by load_pattern
\* of the same file yields a grid with the same cells and the generation, population,
\* max_population, total_births and total_deaths of save time.
C19_SaveLoadRoundTrip ==
    pc = "running" =>
      /\ RoundTrip(grid, stats).grid = grid
      /\ \A k \in SavedStats : RoundTrip(grid, stats).stats[k] = stats[k]

\* C20: in GameOfLife.py a load_pattern call on malformed persisted data (text that
\* does not parse, no "grid" field, a field of the wrong type) leaves the session as
\* it was: the live grid, the statistics, the history and history_index are unchanged.
C20_MalformedLoadKeepsState ==
    [][(file \in MalformedFiles /\ LoadPattern)
         => (UNCHANGED <<grid, stats, history, history_index>>)]_vars

\* load_pattern of file f leaves the session of GameOfLife.py as it is
CoreLoadChangesNothing(f) ==
    LET r == load_pattern(f, grid, stats, history, history_index)
    IN  r.grid = grid /\ r.stats = stats /\ r.history = history /\ r.history_index = history_index

\* load_grid of file f leaves the session of GameOfLife_Gemini.py as it is
GeminiLoadChangesNothing(f) ==
    LET r == load_grid(f, gemini)
    IN  r.grid = gemini.grid /\ r.prev_grid = gemini.prev_grid /\ r.generation = gemini.generation

\* C21: a load whose file is missing or unreadable does not end the program and
\* changes nothing: in every reachable state load_pattern of such a file returns the
\* grid, statistics, history and history_index it was given and load_grid returns the
\* grid, prev_grid and generation it was given, and a session that presses Load beside
\* such a file keeps running in the same state.
C21_AbsentFileChangesNothing ==
    /\ [](\A f \in AbsentFiles : CoreLoadChangesNothing(f) /\ GeminiLoadChangesNothing(f))
    /\ [][(file \in AbsentFiles /\ LoadPattern)
            => (pc' = "running" /\ UNCHANGED <<grid, stats, history, history_index>>)]_vars
    /\ [][(gol_save \in AbsentFiles /\ LoadGrid) => UNCHANGED gemini]_vars

\* Both sessions have state to lose beside an absent file: the core has filled and
\* stepped its grid, the toroidal one has stepped.
C21_Witness ==
    /\ pc = "running"
    /\ file \in AbsentFiles
    /\ gol_save \in AbsentFiles
    /\ grid # zeros
    /\ stats.generation > 0
    /\ Len(history) > 1
    /\ gemini.generation > 0
    /\ gemini.grid # torus_zeros
    /\ gemini.prev_grid # gemini.grid

\* Statistic k is absent from the data of file f
AbsentStat(f, k) == "stats" \notin DOMAIN f.data \/ k \notin DOMAIN f.data.stats

\* C22: in GameOfLife.py, after a successful load_pattern each of generation,
\* population, max_population, total_births and total_deaths that is absent from the
\* loaded data is 0, when single fields are missing from "stats" and when "stats" is
\* missing altogether.
C22_AbsentStatsDefaultToZero ==
    [][(file.kind = "object" /\ "grid" \in DOMAIN file.data /\ LoadPattern)
         => \A k \in SavedStats : AbsentStat(file, k) => stats'[k] = 0]_vars

\* C23: in every reachable state of GameOfLife.py the live grid has GRID_HEIGHT rows of
\* GRID_WIDTH cells; no operation, the load of a file holding a grid of another size
\* included, changes the grid's dimensions.
C23_GridSizeFixed ==
    /\ Len(grid) = GRID_HEIGHT
    /\ \A r \in 1 .. Len(grid) : Len(grid[r]) = GRID_WIDTH

\* Cell <<row, col>> exists in g
InBounds(g, cell) ==
    /\ 0 <= cell[1] /\ cell[1] < Len(g)
    /\ 0 <= cell[2] /\ cell[2] < Len(g[cell[1] + 1])

\* C24: in GameOfLife.py no operation reads or writes a cell outside the live grid's
\* actual bounds, in any reachable state: every cell the loops of update_grid reach
\* (self.grid[row, col] and the neighbours get_neighbors reads) exists in the live
\* grid whenever update_grid is called, also after a load, an undo or a redo; the
\* other handlers of the session replace the grid whole.
C24_AccessInBounds ==
    [][UpdateStep => \A cell \in Cells : InBounds(grid, cell)]_vars

\* h is the stored grid cut or padded to the session's size: the cells of the
\* top-left region the two have in common are the stored ones, every other cell is 0
Refit(stored, h) ==
    /\ Len(h) = grid_height
    /\ \A r \in 1 .. Len(h) :
         /\ Len(h[r]) = grid_width
         /\ \A c \in 1 .. Len(h[r]) :
              h[r][c] = IF r <= Len(stored) /\ c <= Len(stored[1]) THEN stored[r][c] ELSE 0

\* C25: in GameOfLife_Gemini.py, loading a stored grid whose dimensions differ from
\* (grid_height, grid_width) gives a live grid of the session's dimensions whose
\* top-left min(rows) x min(cols) region is the stored grid's and whose other cells
\* are 0; loading a grid of the session's dimensions installs it unchanged.
C25_LoadResizes ==
    [][(gol_save \in StoredGrids /\ LoadGrid)
         => /\ Refit(gol_save.data.grid, gemini'.grid)
            /\ (Len(gol_save.data.grid) = grid_height /\ Len(gol_save.data.grid[1]) = grid_width)
                 => gemini'.grid = gol_save.data.grid]_vars

\* A taller and narrower stored grid has been loaded: its first cell is alive in the
\* live grid and the last column of the live grid is empty.
C25_Witness ==
    /\ gol_save \in StoredGrids
    /\ Len(gol_save.data.grid) > grid_height
    /\ Len(gol_save.data.grid[1]) < grid_width
    /\ gemini.generation = gol_save.data.generation
    /\ gemini.prev_grid = gemini.grid
    /\ gemini.grid[1][1] = 1
    /\ gemini.grid[grid_height][Len(gol_save.data.grid[1])] = gol_save.data.grid[grid_height][Len(gol_save.data.grid[1])]
    /\ \A r \in 1 .. grid_height : gemini.grid[r][grid_width] = 0

(***************************************************************************)
(* Rotating and flipping the pattern to place (GameOfLife_Gemini.py)       *)
(***************************************************************************)

\* The largest masks the rotation specification draws
MaxMaskRows == 2
MaxMaskCols == 3

\* PATTERNS['LWSS']
LWSS == << <<0, 1, 0, 0, 1>>, <<1, 0, 0, 0, 0>>, <<1, 0, 0, 0, 1>>, <<1, 1, 1, 1, 0>> >>

\* np.fliplr(m): the columns in reverse order
fliplr(m) == [r \in 1 .. Len(m) |-> [c \in 1 .. Len(m[1]) |-> m[r][Len(m[1]) + 1 - c]]]
\* np.transpose(m)
transpose(m) == [r \in 1 .. Len(m[1]) |-> [c \in 1 .. Len(m) |-> m[c][r]]]

rot90_in_place(m) == fliplr(m)
\* np.rot90(m), k = 1 on the axes (0, 1): transpose(flip(m, 1)), a quarter turn
\* counter-clockwise
rot90(m) == transpose(fliplr(m))

\* K_r: the pattern to place is rotated
KeyR ==
    /\ gemini.active_pattern # <<>>
    /\ gemini' = [gemini EXCEPT !.active_pattern = rot90(@)]
    /\ UNCHANGED <<timing, gol_save, since_step, pc, grid, stats, history, history_index,
                   state, is_drawing, draw_mode, selected_pattern, file, last_op, rec_grid,
                   undone, saves, nrec>>
    /\ UNCHANGED alias

\* K_f: the pattern to place is mirrored
KeyF ==
    /\ gemini.active_pattern # <<>>
    /\ gemini' = [gemini EXCEPT !.active_pattern = fliplr(@)]
    /\ UNCHANGED <<timing, gol_save, since_step, pc, grid, stats, history, history_index,
                   state, is_drawing, draw_mode, selected_pattern, file, last_op, rec_grid,
                   undone, saves, nrec>>
    /\ UNCHANGED alias

\* Every mask of 0s and 1s up to MaxMaskRows x MaxMaskCols, and two of PATTERNS
Masks ==
    UNION {[1 .. rows -> [1 .. cols -> {0, 1}]] :
             rows \in 1 .. MaxMaskRows, cols \in 1 .. MaxMaskCols}
    \cup {PATTERNS_Gemini.Glider, LWSS}

\* A session holding any of the masks as the pattern to place, whose user presses R
\* and F
InitRotate ==
    /\ CoreIdle
    /\ \E m \in Masks : gemini = [GeminiInit EXCEPT !.active_pattern = m]

NextRotate == KeyR \/ KeyF

SpecRotate == InitRotate /\ [][NextRotate]_vars

\* C26: one rotation (the R key, np.rot90) of any pattern mask gives a mask with
\* height and width swapped and as many alive cells, and four rotations in a row
\* give back the mask.
C26_RotationQuarterTurn ==
    [][KeyR => /\ Len(gemini'.active_pattern) = Len(gemini.active_pattern[1])
               /\ Len(gemini'.active_pattern[1]) = Len(gemini.active_pattern)
               /\ np_sum(gemini'.active_pattern) = np_sum(gemini.active_pattern)
               /\ rot90(rot90(rot90(gemini'.active_pattern))) = gemini.active_pattern]_vars

\* PATTERNS['LWSS'] after one press of R: five rows of four cells
C26_Witness ==
    /\ gemini.active_pattern # <<>>
    /\ gemini.active_pattern = rot90(LWSS)
    /\ Len(gemini.active_pattern) = 5
    /\ Len(gemini.active_pattern[1]) = 4

(***************************************************************************)
(* Speed: keys 1 and 2 and the wheel of GameOfLife.py, the slider of       *)
(* GameOfLife_Gemini.py                                                    *)
(***************************************************************************)

\* event.y of the MOUSEWHEEL events the model sends
WheelDeltas == {-100, -1, 1, 100}

speed_wheel_unclamped(s, y) == s + y
\* MOUSEWHEEL with K_LCTRL held
speed_wheel(s, y) == max(1, min(60, s + y))

\* K_1
Key1 ==
    /\ pc = "running"
    /\ speed' = max(1, speed - 1)
    /\ last_op' = "other"
    /\ undone' = <<>>
    /\ UNCHANGED <<last_update, now, stepped_at, gol_save, since_step, gemini, pc, grid, stats,
                   history, history_index, state, is_drawing, draw_mode, selected_pattern,
                   file, rec_grid, saves, nrec>>
    /\ UNCHANGED alias

\* K_2
Key2 ==
    /\ pc = "running"
    /\ speed' = min(60, speed + 1)
    /\ last_op' = "other"
    /\ undone' = <<>>
    /\ UNCHANGED <<last_update, now, stepped_at, gol_save, since_step, gemini, pc, grid, stats,
                   history, history_index, state, is_drawing, draw_mode, selected_pattern,
                   file, rec_grid, saves, nrec>>
    /\ UNCHANGED alias

\* MOUSEWHEEL, with or without K_LCTRL
MouseWheel ==
    /\ pc = "running"
    /\ \E y \in WheelDeltas, ctrl \in BOOLEAN :
         speed' = IF ctrl THEN speed_wheel(speed, y) ELSE speed
    /\ last_op' = "other"
    /\ undone' = <<>>
    /\ UNCHANGED <<last_update, now, stepped_at, gol_save, since_step, gemini, pc, grid, stats,
                   history, history_index, state, is_drawing, draw_mode, selected_pattern,
                   file, rec_grid, saves, nrec>>
    /\ UNCHANGED alias

\* self.rect of the speed slider: Rect(x, y, width, 20)
SliderX == SCREEN_WIDTH - PANEL_WIDTH + 20
SliderY == 120
SliderHeight == 20
collidepoint(mouse_pos) ==
    /\ SliderX <= mouse_pos[1] /\ mouse_pos[1] < SliderX + SliderWidth
    /\ SliderY <= mouse_pos[2] /\ mouse_pos[2] < SliderY + SliderHeight

\* Points of the panel on no button: on the slider (both ends and the middle), right
\* of it, left of it and below it
PanelPositions ==
    {<<SliderX, SliderY>>, <<SliderX + 140, SliderY + 10>>,
     <<SliderX + SliderWidth - 1, SliderY + SliderHeight - 1>>,
     <<SliderX + SliderWidth, SliderY + 10>>, <<SliderX - 1, SliderY + 10>>,
     <<SliderX + 140, SliderY + SliderHeight>>}
\* pygame.mouse.get_pos() while the mouse moves: the points of the panel, the left
\* edge of the window, a point of the view and the right edge
MotionPositions ==
    PanelPositions \cup {<<0, SliderY + 10>>, <<SliderX - 41, 400>>, <<SliderX + 1, 0>>,
                         <<SCREEN_WIDTH - 1, SliderY + 10>>}

\* Slider.handle_event, MOUSEMOTION while dragging: the value, in units of
\* 1/SliderWidth (the division by self.rect.width is not carried out)
slider_value(mouse_x) ==
    max(min_val * SliderWidth,
        min(max_val * SliderWidth,
            min_val * SliderWidth + (mouse_x - SliderX) * (max_val - min_val)))

\* MOUSEBUTTONDOWN, button 1, on the panel of GameOfLife_Gemini.py and on no button
SliderMouseDown ==
    /\ \E mouse_pos \in PanelPositions :
         gemini' = [gemini EXCEPT !.slider.is_dragging = collidepoint(mouse_pos) \/ @]
    /\ UNCHANGED <<timing, gol_save, since_step, pc, grid, stats, history, history_index,
                   state, is_drawing, draw_mode, selected_pattern, file, last_op, rec_grid,
                   undone, saves, nrec>>
    /\ UNCHANGED alias

\* MOUSEBUTTONUP, button 1 (GameOfLife_Gemini.py)
SliderMouseUp ==
    /\ gemini' = [gemini EXCEPT !.slider.is_dragging = FALSE]
    /\ UNCHANGED <<timing, gol_save, since_step, pc, grid, stats, history, history_index,
                   state, is_drawing, draw_mode, selected_pattern, file, last_op, rec_grid,
                   undone, saves, nrec>>
    /\ UNCHANGED alias

\* MOUSEMOTION (GameOfLife_Gemini.py), no button of the grid held
SliderMouseMotion ==
    /\ \E mouse_pos \in MotionPositions :
         gemini' = IF gemini.slider.is_dragging
                   THEN [gemini EXCEPT !.slider.value = slider_value(mouse_pos[1])]
                   ELSE gemini
    /\ UNCHANGED <<timing, gol_save, since_step, pc, grid, stats, history, history_index,
                   state, is_drawing, draw_mode, selected_pattern, file, last_op, rec_grid,
                   undone, saves, nrec>>
    /\ UNCHANGED alias

\* Two sessions, one of each program, whose users change the speed
NextSpeed ==
    \/ RunStart
    \/ Key1
    \/ Key2
    \/ MouseWheel
    \/ SliderMouseDown
    \/ SliderMouseUp
    \/ SliderMouseMotion

SpecSpeed == Init /\ [][NextSpeed]_vars

\* C27: in every reachable state of GameOfLife.py, after any keys 1 and 2 and any
\* Ctrl+wheel event, speed is an integer from 1 to 60; in GameOfLife_Gemini.py the
\* value of the speed slider stays within [1, 60] after any drag.
C27_SpeedClamped ==
    /\ speed \in 1 .. 60
    /\ min_val * SliderWidth <= gemini.slider.value
    /\ gemini.slider.value <= max_val * SliderWidth

\* The wheel or key 1 has brought speed down to 1 and the slider is held at its
\* right end.
C27_Witness ==
    /\ speed = 1
    /\ gemini.slider.is_dragging
    /\ gemini.slider.value = max_val * SliderWidth

(***************************************************************************)
(* Pacing: the frames of run() and the steps they take                     *)
(***************************************************************************)

\* run(): a frame that does not step, because playback is paused or because the gate
\* is closed. current_time is the frame's reading of the clock.
IdleFrame ==
    /\ pc = "running"
    /\ \E current_time \in Times :
         /\ current_time >= now
         /\ ~(playing(state) /\ gate(current_time, last_update, speed))
         /\ now' = current_time
    /\ UNCHANGED <<speed, last_update, stepped_at, gol_save, since_step, gemini, pc, grid,
                   stats, history, history_index, state, is_drawing, draw_mode,
                   selected_pattern, file, last_op, rec_grid, undone, saves, nrec>>
    /\ UNCHANGED alias

\* A session of GameOfLife.py whose user plays, pauses, steps, clears and changes the
\* speed while the frames go by
NextClock ==
    \/ RunStart
    \/ PlayPause
    \/ StepButton
    \/ Tick
    \/ IdleFrame
    \/ Key1
    \/ Key2
    \/ MouseWheel
    \/ ClearGrid

SpecClock == Init /\ [][NextClock]_vars

\* C28: in GameOfLife.py, while playback is Running, any two update_grid() calls are
\* more than 1000/speed milliseconds of clock time apart, and a frame calls
\* update_grid() at most once.
C28_StepsGated ==
    [][Tick => /\ stepped_at[2] = -1 \/ (stepped_at'[2] - stepped_at[2]) * speed > 1000
               /\ stepped_at'[2] = now'
               /\ pc' = "running" => stats'.generation = stats.generation + 1]_vars

\* Two frames have stepped, less than a tenth of a second apart (the speed was raised).
C28_Witness ==
    /\ state = "RUNNING"
    /\ stepped_at[1] # -1
    /\ stepped_at[2] - stepped_at[1] < 100
    /\ last_update = stepped_at[2]

(***************************************************************************)
(* Pacing of GameOfLife_Gemini.py: run(), update() and toggle_running()    *)
(***************************************************************************)

\* clock.tick(60) of the frames, in milliseconds: a frame at 60 FPS and a frame that
\* took a quarter of a second
DeltaTimes == {17, 250}
\* The longest time (milliseconds) the model lets time_since_last_update and the
\* history variable since_step.elapsed hold
MaxBacklog == 400

\* update(): 1.0 / self.sliders['speed'].value, in milliseconds (a whole number for the
\* value __init__ sets)
update_interval(value) == (1000 * SliderWidth) \div value

\* update(delta_time), delta_time in milliseconds: the object after the call
update(gem, delta_time) ==
    LET t == gem.time_since_last_update + delta_time
    IN  IF t >= update_interval(gem.slider.value)
        THEN [gem EXCEPT !.time_since_last_update = t - update_interval(gem.slider.value),
                         !.prev_grid = gem.grid,
                         !.grid = step_grid(gem.grid),
                         !.generation = @ + 1]
        ELSE [gem EXCEPT !.time_since_last_update = t]

\* run(): `if self.is_running: self.update(delta_time)`
frame(gem, delta_time) == IF gem.is_running THEN update(gem, delta_time) ELSE gem

\* toggle_running(): the "Play"/"Pause" button, K_SPACE
toggle_running ==
    /\ gemini' = [gemini EXCEPT !.is_running = ~@]
    /\ since_step' = [elapsed |-> -1, gap |-> -1]
    /\ UNCHANGED <<timing, gol_save, pc, grid, stats, history, history_index, state,
                   is_drawing, draw_mode, selected_pattern, file, last_op, rec_grid, undone,
                   saves, nrec>>
    /\ UNCHANGED alias

\* run(): one iteration of the loop with no event
GeminiFrame ==
    /\ \E delta_time \in DeltaTimes :
         /\ gemini.time_since_last_update + delta_time <= MaxBacklog
         /\ \E gem \in {frame(gemini, delta_time)} :
              /\ gem.generation <= MaxTorusGen
              /\ gemini' = gem
              /\ since_step' =
                   IF ~gemini.is_running THEN since_step
                   ELSE IF gem.generation # gemini.generation
                        THEN [elapsed |-> 0,
                              gap |-> IF since_step.elapsed = -1 THEN -1
                                      ELSE min(MaxBacklog, since_step.elapsed + delta_time)]
                   ELSE [since_step EXCEPT
                           !.elapsed = IF @ = -1 THEN -1 ELSE min(MaxBacklog, @ + delta_time)]
    /\ UNCHANGED <<timing, gol_save, pc, grid, stats, history, history_index, state,
                   is_drawing, draw_mode, selected_pattern, file, last_op, rec_grid, undone,
                   saves, nrec>>
    /\ UNCHANGED alias

\* A session of GameOfLife_Gemini.py that starts from a Glider; its user plays, pauses
\* and presses "Step" while the frames go by
NextPacing ==
    \/ toggle_running
    \/ GeminiFrame
    \/ step

\* __init__ and a Glider placed at cell (1, 1)
InitPacing ==
    /\ CoreIdle
    /\ gemini = [GeminiInit EXCEPT
                   !.grid = embed_wrap(torus_zeros, PATTERNS_Gemini.Glider, 1, 1)]

SpecPacing == InitPacing /\ [][NextPacing]_vars

\* C29: in GameOfLife_Gemini.py, while playback is running, any two step() calls are at
\* least one update interval (1/speed seconds) apart, also after a frame whose
\* delta_time exceeded the interval and also when the Step button is used.
C29_StepsAnIntervalApart ==
    since_step.gap = -1 \/ since_step.gap >= update_interval(gemini.slider.value)

\* Two sessions, one of each program, whose users fill the grid, play and pause while
\* the frames go by
NextFrames ==
    \/ RunStart
    \/ FillRandom
    \/ PlayPause
    \/ Tick
    \/ IdleFrame
    \/ toggle_running
    \/ GeminiFrame

SpecFrames == InitPacing /\ [][NextFrames]_vars

\* C30: while playback is Paused no automatic step is invoked: a frame that finds the
\* state Paused, with no user action, leaves the grid and the generation counter
\* unchanged (run() of GameOfLife.py and run() of GameOfLife_Gemini.py).
C30_PausedFramesKeepGrid ==
    /\ [](~gemini.is_running
            => \A delta_time \in DeltaTimes :
                  /\ frame(gemini, delta_time).grid = gemini.grid
                  /\ frame(gemini, delta_time).generation = gemini.generation)
    /\ [][(state = "PAUSED" /\ (Tick \/ IdleFrame))
            => (now' >= now /\ UNCHANGED <<grid, stats, last_update>>)]_vars

\* GameOfLife.py has taken a frame while Paused at a time when the gate was open
\* (had it been Running, the frame would have stepped and set last_update), on a
\* filled grid; GameOfLife_Gemini.py is paused again after steps taken while playing.
C30_Witness ==
    /\ state = "PAUSED"
    /\ grid # zeros
    /\ stats.generation = 0
    /\ gate(now, last_update, speed)
    /\ ~gemini.is_running
    /\ gemini.generation > 0
    /\ gemini.time_since_last_update > 0

(***************************************************************************)
(* Statistics, history entries and the frame of the handlers               *)
(***************************************************************************)

\* The seven counters of Statistics
StatFields ==
    {"generation", "population", "births", "deaths", "max_population", "total_births",
     "total_deaths"}

\* C31: in GameOfLife.py, clear_grid() first records the grid as it was before the
\* clear in the history, then leaves every cell dead and every field of Statistics
\* (generation, population, births, deaths, max_population, total_births,
\* total_deaths) equal to 0.
C31_ClearRecordsAndResets ==
    [][ClearGrid => /\ history' # <<>>
                    /\ history'[Len(history')] = grid
                    /\ history_index' = Len(history') - 1
                    /\ \A r \in 1 .. GRID_HEIGHT : \A c \in 1 .. GRID_WIDTH : grid'[r][c] = 0
                    /\ Len(grid') = GRID_HEIGHT
                    /\ \A k \in StatFields : stats'[k] = 0]_vars

\* A grid with alive cells has been cleared after a frame of run() had stepped: the
\* generation is 0 again and the cleared grid is the newest history entry.
C31_Witness ==
    /\ last_op \in {"action", "action_after_undo"}
    /\ grid = zeros
    /\ rec_grid # zeros
    /\ history # <<>>
    /\ history[Len(history)] = rec_grid
    /\ stepped_at[2] # -1
    /\ stats.generation = 0
    /\ stats.max_population = 0

\* The counters the program only ever adds to
MonotoneFields == {"generation", "total_births", "total_deaths", "max_population"}

\* C32: in GameOfLife.py, generation, total_births, total_deaths and max_population
\* never decrease across an operation other than a reset (clear_grid): after every
\* other operation, load_pattern, undo and redo included, each is at least what it
\* was before; and generation starts at 0.
C32_CountersNeverDecrease ==
    /\ (pc = "constructed" => stats.generation = 0)
    /\ [][ClearGrid \/ \A k \in MonotoneFields : stats'[k] >= stats[k]]_vars

\* C33: history entries are deep copies: no in-place write to the live grid
\* (toggle_cell, place_pattern) changes the contents of a history entry, also when
\* the live grid was installed by undo() or redo(). The handlers that write in place
\* leave in the history what save_to_history() left there, and no history entry is
\* the array self.grid refers to.
C33_HistoryEntriesAreCopies ==
    [][(MouseDownLeft \/ MouseDownRight \/ MouseMotion)
         => /\ history' \in {history, save_to_history(history, history_index, grid).history}
            /\ alias' = {}]_vars

\* A cell has been drawn on a grid that undo() installed: the history holds the grid
\* as it was before the write.
C33_Witness ==
    /\ last_op = "action_after_undo"
    /\ is_drawing
    /\ Len(history) >= 2
    /\ history[Len(history)] = rec_grid
    /\ grid # rec_grid
    /\ alias = {}

\* C34: in every reachable state of GameOfLife.py, stats.population is the number of
\* alive cells of the live grid, after any steps, draws, placements, random fills,
\* undo/redo and loads.
C34_PopulationIsAliveCount == stats.population = np_sum(grid)

\* C35: right after every save_to_history() call history_index is len(history) - 1,
\* the cursor is at the snapshot just recorded; so the branch that drops the oldest
\* entry (the one that leaves history_index as it is) is only ever taken with the
\* history full and the cursor at its newest entry.
C35_CursorAtNewestAfterSave ==
    [][nrec' # nrec
         => /\ history_index' = Len(history') - 1
            /\ history'[Len(history')] = grid
            /\ history_index' = history_index
                 => (history_index = Len(history) - 1 /\ Len(history) = max_history)]_vars

\* toggle_cell has recorded the grid with the history full: the oldest entry is gone
\* and the cursor is at the last entry.
C35_Witness ==
    /\ is_drawing
    /\ saves = 1
    /\ nrec = MaxSaves
    /\ Len(history) = max_history
    /\ history_index = Len(history) - 1
    /\ history[Len(history)] = rec_grid

\* C36: for every grid, an update_grid() call that returns leaves as many alive cells
\* as there were before plus the births minus the deaths it counted, so that
\* total_births - total_deaths grows by the change of the number of alive cells.
C36_StepBalancesPopulation ==
    [][(UpdateStep /\ pc' # "crashed")
         => /\ np_sum(grid') = np_sum(grid) + stats'.births - stats'.deaths
            /\ (stats'.total_births - stats'.total_deaths)
                 - (stats.total_births - stats.total_deaths)
               = np_sum(grid') - np_sum(grid)]_vars

\* C37: simulation steps are not recorded and undo/redo do not touch the statistics:
\* update_grid() leaves history and history_index as they are; undo() and redo()
\* leave every Statistics field, the playback state and the history contents as they
\* are, only the live grid and history_index change.
C37_StepsUnrecordedUndoKeepsStats ==
    [][/\ UpdateStep => (history' = history /\ history_index' = history_index)
       /\ (Undo \/ Redo)
            => /\ \A k \in StatFields : stats'[k] = stats[k]
               /\ state' = state
               /\ history' = history
               /\ UNCHANGED <<is_drawing, draw_mode, selected_pattern, speed, last_update, file>>]_vars

\* An undo has brought back a grid recorded before the step whose statistics are
\* still shown.
C37_Witness ==
    /\ last_op \in {"undo", "undo_action"}
    /\ stats.generation = 1
    /\ stats.population # np_sum(grid)
    /\ grid = history[history_index + 1]
    /\ history_index < Len(history) - 1

\* C38: the "step" button advances the simulation by exactly one generation when the
\* state is PAUSED (whenever the handler returns), and changes neither the grid nor
\* the statistics when the state is RUNNING.
C38_StepButtonOnlyWhenPaused ==
    [][(StepButton /\ pc' # "crashed")
         => IF state = "PAUSED"
            THEN /\ stats'.generation = stats.generation + 1
                 /\ grid' = step_result(grid).new_grid
                 /\ state' = "PAUSED"
            ELSE /\ grid' = grid
                 /\ stats' = stats
                 /\ state' = "RUNNING"]_vars

\* The only generation so far was made by the "step" button: no frame of run() has
\* stepped.
C38_Witness ==
    /\ state = "PAUSED"
    /\ stats.generation = 1
    /\ stats.births > 0
    /\ stepped_at = <<-1, -1>>
    /\ pc = "running"

\* Pixels at the corners of the grid's rectangle and one pixel outside each of its
\* sides, with the positions the mouse handlers are given
TogglePositions ==
    MousePositions
    \cup {<<grid_offset_x + dx, grid_offset_y + dy>> :
             dx \in {-1, 0, GRID_WIDTH * CELL_SIZE - 1, GRID_WIDTH * CELL_SIZE},
             dy \in {-1, 0, GRID_HEIGHT * CELL_SIZE - 1, GRID_HEIGHT * CELL_SIZE}}

\* C39: toggle_cell at a position that resolves outside the grid changes nothing and
\* records nothing (grid, history, history_index and is_drawing stay); at a position
\* inside the grid it sets exactly that cell to 1 in draw mode and to 0 in erase
\* mode, leaves every other cell as it is, and a second call on the same cell changes
\* nothing more.
C39_ToggleOneCellOrNothing ==
    \A pos \in TogglePositions : \A mode \in BOOLEAN :
        LET r == toggle_cell(pos[1], pos[2], grid, history, history_index, is_drawing, mode)
            cell == <<(pos[2] - grid_offset_y) \div CELL_SIZE,
                      (pos[1] - grid_offset_x) \div CELL_SIZE>>
        IN  IF cell \in Cells
            THEN /\ r.grid[cell[1] + 1][cell[2] + 1] = (IF mode THEN 1 ELSE 0)
                 /\ \A other \in Cells \ {cell} :
                       r.grid[other[1] + 1][other[2] + 1] = grid[other[1] + 1][other[2] + 1]
                 /\ DOMAIN r.grid = DOMAIN grid
                 /\ r.is_drawing
                 /\ toggle_cell(pos[1], pos[2], r.grid, r.history, r.history_index,
                                r.is_drawing, mode)
                      = [r EXCEPT !.saved = 0]
            ELSE /\ r.grid = grid
                 /\ r.history = history
                 /\ r.history_index = history_index
                 /\ r.is_drawing = is_drawing
                 /\ r.saved = 0

\* The right button has erased one alive cell of the recorded grid, and the drag is
\* still on.
C39_Witness ==
    /\ is_drawing
    /\ ~draw_mode
    /\ InAction
    /\ rec_grid # <<>>
    /\ grid # rec_grid
    /\ np_sum(grid) = np_sum(rec_grid) - 1
====
